---------------------------- MODULE Spec2Model ----------------------------
(***************************************************************************)
(* A state-machine model of the Position object of the Musketeer chess     *)
(* engine (board, gating metadata, StateInfo chain, Zobrist keys), of      *)
(* do_move / undo_move / do_null_move / undo_null_move, of the legality    *)
(* predicates and of the move generator.                                   *)
(*                                                                         *)
(* Zobrist keys are modelled as sets of symbolic terms: XOR of random      *)
(* 64-bit numbers is the symmetric difference of the sets of terms.        *)
(***************************************************************************)
EXTENDS Integers, Sequences, FiniteSets, Bags, TLC

(***************************************************************************)
(* Bounds of the model.                                                    *)
(***************************************************************************)
\* Longest chain of StateInfo records pushed on top of the one of Position::set.
MaxPly == 2

(***************************************************************************)
(* Types and geometry (types.h).                                           *)
(***************************************************************************)
WHITE == 0
BLACK == 1
Colors == {WHITE, BLACK}
\* operator~(Color)
Opp(c) == 1 - c

NO_PIECE_TYPE == 0
ALL_PIECES == 0
PAWN == 1
KNIGHT == 2
BISHOP == 3
ROOK == 4
QUEEN == 5
CANNON == 6
LEOPARD == 7
ARCHBISHOP == 8
CHANCELLOR == 9
SPIDER == 10
DRAGON == 11
UNICORN == 12
HAWK == 13
ELEPHANT == 14
FORTRESS == 15
KING == 16
PIECE_TYPE_NB == 32
PieceTypes == PAWN..KING

NO_PIECE == 0
make_piece(c, pt) == c * PIECE_TYPE_NB + pt
color_of(pc) == pc \div PIECE_TYPE_NB
type_of_piece(pc) == pc % PIECE_TYPE_NB
\* The pieces the arrays indexed by Piece are kept for (both ALL_PIECES slots included).
Pieces == {make_piece(c, pt) : c \in Colors, pt \in 0..KING}

NO_GATE == 0
GATE_1 == 1
GATE_NB == 3
Gates == GATE_1..(GATE_NB - 1)

GAMEPHASE_SELECTION == 0
GAMEPHASE_PLACING == 1
GAMEPHASE_PLAYING == 2

SQ_A1 == 0
SQ_C1 == 2
SQ_D1 == 3
SQ_F1 == 5
SQ_G1 == 6
SQ_H1 == 7
SQ_A8 == 56
SQ_H8 == 63
SQ_NONE == 64
Squares == SQ_A1..SQ_H8

RANK_1 == 0
RANK_2 == 1
RANK_6 == 5
RANK_8 == 7

NORTH == 8
EAST == 1
SOUTH == -8
WEST == -1
NORTH_EAST == 9
SOUTH_EAST == -7
SOUTH_WEST == -9
NORTH_WEST == 7

is_ok(s) == s >= SQ_A1 /\ s <= SQ_H8
file_of(s) == s % 8
rank_of(s) == s \div 8
make_square(f, r) == r * 8 + f
relative_rank(c, r) == IF c = WHITE THEN r ELSE 7 - r
relative_square(c, s) == make_square(file_of(s), relative_rank(c, rank_of(s)))
pawn_push(c) == IF c = WHITE THEN NORTH ELSE SOUTH

Abs(x) == IF x < 0 THEN -x ELSE x
Max(a, b) == IF a > b THEN a ELSE b
Min(a, b) == IF a < b THEN a ELSE b

(***************************************************************************)
(* Bitboard library (bitboard.cpp).  A bitboard is a set of squares.       *)
(***************************************************************************)
\* SquareDistance[s1][s2]: the larger of file and rank distance.
distance(s1, s2) ==
    Max(Abs(file_of(s1) - file_of(s2)), Abs(rank_of(s1) - rank_of(s2)))

Rank1BB == {s \in Squares : rank_of(s) = 0}
Rank8BB == {s \in Squares : rank_of(s) = 7}
TRank7BB(us) == {s \in Squares : rank_of(s) = relative_rank(us, 6)}
TRank3BB(us) == {s \in Squares : rank_of(s) = relative_rank(us, 2)}
TRank8BB(us) == {s \in Squares : rank_of(s) = relative_rank(us, 7)}

\* shift<D>(b): the squares of b moved one step in direction D, without wrap.
shift(D, b) == {s + D : s \in {x \in b : is_ok(x + D) /\ distance(x, x + D) = 1}}

\* The number of steps the loop of sliding_attack makes from sq in direction d
\* on an empty board: it stops off board and on a wrap-around.
RayLen ==
    [sq \in Squares |-> [d \in {NORTH, EAST, SOUTH, WEST, NORTH_EAST, SOUTH_EAST,
                                SOUTH_WEST, NORTH_WEST} |->
        LET ok(k) == is_ok(sq + k * d) /\ distance(sq + k * d, sq + (k - 1) * d) = 1
        IN  IF \A k \in 1..7 : ok(k) THEN 7
            ELSE (CHOOSE k \in 1..7 : ~ok(k) /\ \A j \in 1..(k - 1) : ok(j)) - 1]]

\* sliding_attack(): walk every direction until the edge, max_dist, or the
\* first occupied square, which is included.
sliding_attack(directions, sq, occupied, max_dist) ==
    UNION {{sq + k * d : k \in {i \in 1..Min(RayLen[sq][d], max_dist) :
                                  \A j \in 1..(i - 1) : (sq + j * d) \notin occupied}}
           : d \in directions}

RookDirections == {NORTH, EAST, SOUTH, WEST}
BishopDirections == {NORTH_EAST, SOUTH_EAST, SOUTH_WEST, NORTH_WEST}

\* int steps[][17] of Bitboards::init, from White's point of view.
steps ==
    [pt \in 0..KING |->
       CASE pt = PAWN -> {7, 9}
         [] pt \in {KNIGHT, LEOPARD, ARCHBISHOP, CHANCELLOR, DRAGON} ->
                {-17, -15, -10, -6, 6, 10, 15, 17}
         [] pt = CANNON -> {-16, -10, -9, -8, -7, -6, -2, -1, 16, 10, 9, 8, 7, 6, 2, 1}
         [] pt = SPIDER -> {-17, -16, -15, -10, -6, -2, 17, 16, 15, 10, 6, 2}
         [] pt = UNICORN -> {-25, -23, -17, -15, -11, -10, -6, -5,
                             25, 23, 17, 15, 11, 10, 6, 5}
         [] pt = HAWK -> {-27, -24, -21, -18, -16, -14, -3, -2,
                          27, 24, 21, 18, 16, 14, 3, 2}
         [] pt = ELEPHANT -> {-18, -16, -14, -9, -8, -7, -2, -1,
                              18, 16, 14, 9, 8, 7, 2, 1}
         [] pt = FORTRESS -> {-17, -16, -15, -2, 17, 16, 15, 2}
         [] pt = KING -> {-9, -8, -7, -1, 1, 7, 8, 9}
         [] OTHER -> {}]

\* Direction slider[][9] of Bitboards::init.
slider ==
    [pt \in 0..KING |->
       CASE pt \in {BISHOP, LEOPARD, ARCHBISHOP, SPIDER, FORTRESS} -> BishopDirections
         [] pt \in {ROOK, CHANCELLOR} -> RookDirections
         [] pt \in {QUEEN, DRAGON} -> RookDirections \cup BishopDirections
         [] OTHER -> {}]

\* int slider_dist[] of Bitboards::init.
slider_dist ==
    [pt \in 0..KING |->
       CASE pt \in {BISHOP, ROOK, QUEEN, ARCHBISHOP, CHANCELLOR, DRAGON} -> 7
         [] pt \in {LEOPARD, SPIDER} -> 2
         [] pt = FORTRESS -> 3
         [] OTHER -> 0]

\* LeaperAttacks[c][pt][s]: the steps of pt, mirrored for Black, that stay on
\* the board and within distance 3.
LeaperAttacks ==
    [c \in Colors |-> [pt \in 0..KING |-> [s \in Squares |->
        {s + (IF c = WHITE THEN d ELSE -d) : d \in
            {x \in steps[pt] : LET to == s + (IF c = WHITE THEN x ELSE -x)
                               IN  is_ok(to) /\ distance(s, to) < 4}}]]]

\* PseudoAttacks[c][pt][s]: leaper steps and slider rays on an empty board.
PseudoAttacks ==
    [c \in Colors |-> [pt \in 0..KING |-> [s \in Squares |->
        LeaperAttacks[c][pt][s] \cup sliding_attack(slider[pt], s, {}, slider_dist[pt])]]]

\* attacks_bb(c, pt, s, occupied): leaper steps plus slider rays cut at the
\* first occupied square.
attacks_bb(c, pt, s, occupied) ==
    LeaperAttacks[c][pt][s] \cup sliding_attack(slider[pt], s, occupied, slider_dist[pt])

\* BetweenBB[s1][s2] and LineBB[s1][s2], filled for squares on a common rook
\* or bishop line and empty otherwise.
BetweenBB ==
    [s1 \in Squares |-> [s2 \in Squares |->
        UNION {attacks_bb(WHITE, pt, s1, {s2}) \cap attacks_bb(WHITE, pt, s2, {s1})
               : pt \in {p \in {BISHOP, ROOK} : s2 \in PseudoAttacks[WHITE][p][s1]}}]]

LineBB ==
    [s1 \in Squares |-> [s2 \in Squares |->
        UNION {(attacks_bb(WHITE, pt, s1, {}) \cap attacks_bb(WHITE, pt, s2, {}))
                    \cup {s1, s2}
               : pt \in {p \in {BISHOP, ROOK} : s2 \in PseudoAttacks[WHITE][p][s1]}}]]

between_bb(s1, s2) == BetweenBB[s1][s2]
aligned(s1, s2, s3) == s3 \in LineBB[s1][s2]
more_than_one(b) == Cardinality(b) > 1
\* lsb(b): the least square of a non-empty bitboard.
lsb(b) == CHOOSE s \in b : \A t \in b : s <= t
\* The squares of b in the order pop_lsb() hands them out.
BBSeq(b) == SelectSeq([i \in 1..64 |-> i - 1], LAMBDA s : s \in b)

(***************************************************************************)
(* Zobrist keys, piece-square scores and piece values.                     *)
(***************************************************************************)
\* a ^ b on keys (sets of terms) and on bitboards (sets of squares).
Xor(a, b) == (a \ b) \cup (b \ a)

\* Zobrist::psq[pc][s]; entries of pieces Position::init never fills are 0.
Zobrist_psq(pc, s) ==
    IF type_of_piece(pc) \in PieceTypes THEN {<<"psq", pc, s>>} ELSE {}
\* Zobrist::psq_gate[pc][f]
Zobrist_psq_gate(pc, f) ==
    IF type_of_piece(pc) \in PieceTypes THEN {<<"psq_gate", pc, f>>} ELSE {}
\* Zobrist::inhand[pt][g]
Zobrist_inhand(pt, g) ==
    IF pt \in PieceTypes THEN {<<"inhand", pt, g>>} ELSE {}
\* Zobrist::enpassant[f]
Zobrist_enpassant(f) == {<<"enpassant", f>>}
\* Zobrist::castling[cr]: the XOR of one key for each right in cr.
Zobrist_castling(cr) == {<<"castling", r>> : r \in cr}
Zobrist_side == {<<"side">>}
Zobrist_noPawns == {<<"noPawns">>}

\* PSQT::psq[pc][s] and PSQT::psq_gate[pc][f]: tables of scores, one distinct
\* value for each entry.
PSQT_psq(pc, s) == IF type_of_piece(pc) \in PieceTypes THEN 64 * pc + s + 1 ELSE 0
PSQT_psq_gate(pc, f) ==
    IF type_of_piece(pc) \in PieceTypes THEN 5000 + 8 * pc + f ELSE 0
\* PieceValue[MG][pc]
PieceValue(pc) == 100 * type_of_piece(pc)

(***************************************************************************)
(* Castling rights: a set of the four CastlingRight bits.                  *)
(***************************************************************************)
WHITE_OO == 1
WHITE_OOO == 2
BLACK_OO == 4
BLACK_OOO == 8
ANY_CASTLING == {WHITE_OO, WHITE_OOO, BLACK_OO, BLACK_OOO}
KING_SIDE == 0
QUEEN_SIDE == 1
\* operator|(Color, CastlingSide): WHITE_OO << ((s == QUEEN_SIDE) + 2 * c)
MakeCastling(c, cs) ==
    IF c = WHITE THEN (IF cs = KING_SIDE THEN WHITE_OO ELSE WHITE_OOO)
                 ELSE (IF cs = KING_SIDE THEN BLACK_OO ELSE BLACK_OOO)
\* (WHITE_OO | WHITE_OOO) << (2 * c)
ColorCastling(c) == {MakeCastling(c, KING_SIDE), MakeCastling(c, QUEEN_SIDE)}

(***************************************************************************)
(* StateInfo and Position (position.h).  A Position is a record p; p.st is *)
(* the chain of StateInfo records, the current one last.                   *)
(***************************************************************************)
\* A field of a caller-supplied StateInfo that do_move has not assigned.
UNINIT == -1

\* The current StateInfo, st.
St(p) == p.st[Len(p.st)]
\* p with the current StateInfo replaced by s.
WithSt(p, s) == [p EXCEPT !.st[Len(p.st)] = s]

\* Read-side API (position.h 226-440).
piece_on(p, s) == p.board[s]
empty(p, s) == p.board[s] = NO_PIECE
pieces(p) == p.byTypeBB[ALL_PIECES]
pieces_c(p, c) == p.byColorBB[c]
pieces_pt(p, pt) == p.byTypeBB[pt]
pieces_cpt(p, c, pt) == p.byColorBB[c] \cap p.byTypeBB[pt]
\* square<KING>(c): the first entry of the piece list of c's king.
square_king(p, c) == p.pieceList[make_piece(c, KING)][0]
gating_piece(p, g) == p.gatingPieces[g]
gating_piece_sq(p, s) == p.gatingPieces[p.gateBoard[s]]
gating_square(p, c, g) == p.gatingSquares[c][g]
ep_square(p) == St(p).epSquare
can_castle(p, cr) == St(p).castlingRights \cap cr
castling_impeded(p, cr) == (p.byTypeBB[ALL_PIECES] \cap p.castlingPath[cr]) # {}
checkers(p) == St(p).checkersBB
blockers_for_king(p, c) == St(p).blockersForKing[c]
check_squares(p, pt) == St(p).checkSquares[pt]
attacks_from(p, c, pt, s) == attacks_bb(c, pt, s, p.byTypeBB[ALL_PIECES])

\* game_phase with the selection phase left out: a position without a catalog
\* counts as playing.
game_phase_NoSelection(p) ==
    IF p.gateCount >= GATE_NB - 1 /\ p.setupCount[p.sideToMove] < GATE_NB - 1
    THEN GAMEPHASE_PLACING
    ELSE GAMEPHASE_PLAYING

\* game_phase that looks at the gates placed by the side not to move.
game_phase_OtherSide(p) ==
    IF p.gateCount < GATE_NB - 1 THEN GAMEPHASE_SELECTION
    ELSE IF p.setupCount[Opp(p.sideToMove)] < GATE_NB - 1 THEN GAMEPHASE_PLACING
    ELSE GAMEPHASE_PLAYING

game_phase(p) ==
    IF p.gateCount < GATE_NB - 1 THEN GAMEPHASE_SELECTION
    ELSE IF p.setupCount[p.sideToMove] < GATE_NB - 1 THEN GAMEPHASE_PLACING
    ELSE GAMEPHASE_PLAYING

\* An array write at an index inside the array; a write outside it is dropped.
Put(f, i, v) == IF i \in DOMAIN f THEN [f EXCEPT ![i] = v] ELSE f
\* An array read; a read outside the array yields d.
Get(f, i, d) == IF i \in DOMAIN f THEN f[i] ELSE d

\* gatingPieces[++gateCount] = pt
set_gating_type(p, pt) ==
    [p EXCEPT !.gateCount = @ + 1,
              !.gatingPieces = Put(@, p.gateCount + 1, pt)]

\* unset_gating_type that only counts down and leaves the entry in place.
unset_gating_type_KeepsEntry(p) == [p EXCEPT !.gateCount = @ - 1]

\* gatingPieces[gateCount--] = NO_PIECE_TYPE
unset_gating_type(p) ==
    [p EXCEPT !.gateCount = @ - 1,
              !.gatingPieces = Put(@, p.gateCount, NO_PIECE_TYPE)]

add_gate(p, c, s, gate) ==
    [p EXCEPT !.gateBoard[s] = gate,
              !.gatingSquares[c] = Put(@, gate, s),
              !.gateBB = @ \cup {s}]

remove_gate(p, c, s, gate) ==
    [p EXCEPT !.gateBoard[s] = NO_GATE,
              !.gatingSquares[c] = Put(@, gate, SQ_NONE),
              !.gateBB = Xor(@, {s})]

\* add_gate(c, s, ++setupCount[c])
put_gating_piece(p, c, s) ==
    add_gate([p EXCEPT !.setupCount[c] = @ + 1], c, s, p.setupCount[c] + 1)

\* remove_gate(c, s, setupCount[c]--)
remove_gating_piece(p, c, s) ==
    remove_gate([p EXCEPT !.setupCount[c] = @ - 1], c, s, p.setupCount[c])

put_piece(p, pc, s) ==
    LET c == color_of(pc)
        i == p.pieceCount[pc]
        all == make_piece(c, ALL_PIECES)
        cnt1 == [p.pieceCount EXCEPT ![pc] = @ + 1]
    IN  [p EXCEPT !.board[s] = pc,
                  !.byTypeBB = [[@ EXCEPT ![ALL_PIECES] = @ \cup {s}]
                                   EXCEPT ![type_of_piece(pc)] = @ \cup {s}],
                  !.byColorBB[c] = @ \cup {s},
                  !.index[s] = i,
                  !.pieceCount = [cnt1 EXCEPT ![all] = @ + 1],
                  !.pieceList[pc] = Put(@, i, s)]

remove_piece(p, pc, s) ==
    LET c == color_of(pc)
        all == make_piece(c, ALL_PIECES)
        n == p.pieceCount[pc] - 1
        lastSquare == Get(p.pieceList[pc], n, SQ_NONE)
        index1 == Put(p.index, lastSquare, p.index[s])
        list1 == Put(p.pieceList[pc], Get(index1, lastSquare, -1), lastSquare)
        cnt1 == [p.pieceCount EXCEPT ![pc] = n]
    IN  [p EXCEPT !.byTypeBB = [[@ EXCEPT ![ALL_PIECES] = Xor(@, {s})]
                                   EXCEPT ![type_of_piece(pc)] = Xor(@, {s})],
                  !.byColorBB[c] = Xor(@, {s}),
                  !.index = index1,
                  !.pieceList[pc] = Put(list1, n, SQ_NONE),
                  !.pieceCount = [cnt1 EXCEPT ![all] = @ - 1]]

move_piece(p, pc, from, to) ==
    LET fromTo == Xor({from}, {to})
        c == color_of(pc)
        board1 == [p.board EXCEPT ![from] = NO_PIECE]
    IN  [p EXCEPT !.byTypeBB = [[@ EXCEPT ![ALL_PIECES] = Xor(@, fromTo)]
                                   EXCEPT ![type_of_piece(pc)] = Xor(@, fromTo)],
                  !.byColorBB[c] = Xor(@, fromTo),
                  !.board = [board1 EXCEPT ![to] = pc],
                  !.index[to] = p.index[from],
                  !.pieceList[pc] = Put(@, p.index[from], to)]

\* capture_gate that does not write st->capturedGate.
capture_gate_NoRecord(p, c, s) == remove_gate(p, c, s, p.gateBoard[s])

\* st->capturedGate = gateBoard[s]; remove_gate(c, s, gateBoard[s])
capture_gate(p, c, s) ==
    remove_gate(WithSt(p, [St(p) EXCEPT !.capturedGate = p.gateBoard[s]]),
                c, s, p.gateBoard[s])

\* add_gate(c, s, st->capturedGate), the field read as cg
uncapture_gate(p, c, s, cg) == add_gate(p, c, s, cg)

\* gate_piece that puts the piece down and leaves the gate where it is.
gate_piece_KeepsGate(p, c, s) ==
    LET g == p.gateBoard[s]
        p1 == WithSt(p, [St(p) EXCEPT !.gate = g])
    IN  put_piece(p1, make_piece(c, Get(p.gatingPieces, g, NO_PIECE_TYPE)), s)

\* st->gate = gateBoard[s]; put_piece(make_piece(c, gatingPieces[gateBoard[s]]), s);
\* remove_gate(c, s, gateBoard[s])
gate_piece(p, c, s) ==
    LET g == p.gateBoard[s]
        p1 == WithSt(p, [St(p) EXCEPT !.gate = g])
        p2 == put_piece(p1, make_piece(c, Get(p.gatingPieces, g, NO_PIECE_TYPE)), s)
    IN  remove_gate(p2, c, s, g)

\* add_gate(c, s, st->gate); remove_piece(make_piece(c, gatingPieces[st->gate]), s),
\* the field st->gate read as g
ungate_piece(p, c, s, g) ==
    LET p1 == add_gate(p, c, s, g)
    IN  remove_piece(p1, make_piece(c, Get(p.gatingPieces, g, NO_PIECE_TYPE)), s)

(***************************************************************************)
(* Attack queries and check information (position.cpp).                    *)
(***************************************************************************)
attackers_to(p, s, occupied) ==
    UNION {attacks_bb(Opp(c), pt, s, occupied) \cap pieces_cpt(p, c, pt)
           : c \in Colors, pt \in PieceTypes}

\* slider_blockers(): <<blockers, pinners>>.
slider_blockers(p, sliders, s) ==
    LET snipers == (sliders \cap attackers_to(p, s, {})) \ attackers_to(p, s, pieces(p))
        single == {q \in snipers : Cardinality(between_bb(s, q) \cap pieces(p)) = 1}
    IN  <<UNION {between_bb(s, q) \cap pieces(p) : q \in single},
          {q \in single :
              (between_bb(s, q) \cap pieces(p) \cap pieces_c(p, color_of(piece_on(p, s)))) # {}}>>

\* set_check_info(si): si with blockers, pinners and check squares recomputed.
set_check_info(p, si) ==
    LET w == slider_blockers(p, pieces_c(p, BLACK), square_king(p, WHITE))
        b == slider_blockers(p, pieces_c(p, WHITE), square_king(p, BLACK))
        ksq == square_king(p, Opp(p.sideToMove))
    IN  [si EXCEPT !.blockersForKing = [c \in Colors |-> IF c = WHITE THEN w[1] ELSE b[1]],
                   !.pinners = [c \in Colors |-> IF c = BLACK THEN w[2] ELSE b[2]],
                   !.checkSquares = [pt \in 0..KING |->
                        IF pt \in {NO_PIECE_TYPE, KING} THEN {}
                        ELSE attacks_from(p, Opp(p.sideToMove), pt, ksq)]]

\* pieceCount[pc] * PieceValue[MG][pc] summed over the non-pawn, non-king types of c.
RECURSIVE MaterialSum(_, _, _)
MaterialSum(p, c, pt) ==
    IF pt >= KING THEN 0
    ELSE p.pieceCount[make_piece(c, pt)] * PieceValue(make_piece(c, pt))
            + MaterialSum(p, c, pt + 1)

\* The sum of the numbers of a sequence.
RECURSIVE SumSeq(_)
SumSeq(s) == IF s = <<>> THEN 0 ELSE Head(s) + SumSeq(Tail(s))

\* The keys set_state() computes from scratch.
KeyFromScratch(p, si) ==
    LET psqTerms == UNION {Zobrist_psq(piece_on(p, s), s) : s \in pieces(p)}
        inhand == UNION {Zobrist_inhand(gating_piece(p, g), g) : g \in GATE_1..p.gateCount}
        gateTerms(c) == {g \in GATE_1..p.setupCount[c] : gating_square(p, c, g) # SQ_NONE}
        \* XOR over the (c, g) pairs: a term met twice cancels
        gatePairs == {<<c, g>> : c \in Colors, g \in Gates}
        gateKey(cg) == IF cg[2] \in gateTerms(cg[1])
                       THEN Zobrist_psq_gate(make_piece(cg[1], gating_piece(p, cg[2])),
                                             file_of(gating_square(p, cg[1], cg[2])))
                       ELSE {}
        gates == {t \in UNION {gateKey(cg) : cg \in gatePairs} :
                     Cardinality({cg \in gatePairs : t \in gateKey(cg)}) % 2 = 1}
        ep == IF si.epSquare # SQ_NONE THEN Zobrist_enpassant(file_of(si.epSquare)) ELSE {}
        side == IF p.sideToMove = BLACK THEN Zobrist_side ELSE {}
    IN  Xor(Xor(Xor(Xor(Xor(psqTerms, inhand), gates), ep), side),
            Zobrist_castling(si.castlingRights))

PsqFromScratch(p) ==
    LET sqs == BBSeq(pieces(p))
        cgs == <<<<WHITE, 1>>, <<WHITE, 2>>, <<BLACK, 1>>, <<BLACK, 2>>>>
        gateScore(cg) ==
            IF cg[2] <= p.setupCount[cg[1]] /\ gating_square(p, cg[1], cg[2]) # SQ_NONE
            THEN PSQT_psq_gate(make_piece(cg[1], gating_piece(p, cg[2])),
                               file_of(gating_square(p, cg[1], cg[2])))
            ELSE 0
    IN  SumSeq([i \in 1..Len(sqs) |-> PSQT_psq(piece_on(p, sqs[i]), sqs[i])])
      + SumSeq([i \in 1..Len(cgs) |-> gateScore(cgs[i])])

\* set_state(si): every incrementally maintained field recomputed.
set_state(p, si) ==
    LET si1 == [si EXCEPT
            !.key = KeyFromScratch(p, si),
            !.pawnKey = Xor(Zobrist_noPawns,
                UNION {Zobrist_psq(piece_on(p, s), s) : s \in pieces_pt(p, PAWN)}),
            !.materialKey = UNION {UNION {Zobrist_psq(pc, cnt) : cnt \in 0..(p.pieceCount[pc] - 1)}
                                   : pc \in {make_piece(c, pt) : c \in Colors, pt \in PieceTypes}},
            !.nonPawnMaterial = [c \in Colors |-> MaterialSum(p, c, KNIGHT)],
            !.psq = PsqFromScratch(p),
            !.checkersBB = attackers_to(p, square_king(p, p.sideToMove), pieces(p))
                              \cap pieces_c(p, Opp(p.sideToMove))]
    IN  set_check_info(p, si1)


(***************************************************************************)
(* Position::set(): the FEN parser.  A FEN is a record of its fields, the  *)
(* piece placement, gating list, castling and en passant fields being      *)
(* sequences of characters.                                                *)
(***************************************************************************)
\* PieceToChar: the letter of every piece type, White's; Black's are the
\* same letters in lower case.
PieceToCharWhite ==
    <<"P", "N", "B", "R", "Q", "C", "L", "A", "M", "S", "D", "U", "H", "E", "F", "K">>
PieceToCharBlack ==
    <<"p", "n", "b", "r", "q", "c", "l", "a", "m", "s", "d", "u", "h", "e", "f", "k">>
\* PieceToChar.find(token): the piece of a letter, NO_PIECE for string::npos.
PieceOfChar(ch) ==
    IF \E i \in 1..KING : PieceToCharWhite[i] = ch
    THEN make_piece(WHITE, CHOOSE i \in 1..KING : PieceToCharWhite[i] = ch)
    ELSE IF \E i \in 1..KING : PieceToCharBlack[i] = ch
    THEN make_piece(BLACK, CHOOSE i \in 1..KING : PieceToCharBlack[i] = ch)
    ELSE NO_PIECE

DigitChars == <<"0", "1", "2", "3", "4", "5", "6", "7", "8", "9">>
isdigit(ch) == \E i \in 1..10 : DigitChars[i] = ch
DigitVal(ch) == (CHOOSE i \in 1..10 : DigitChars[i] = ch) - 1
FileCharsLower == <<"a", "b", "c", "d", "e", "f", "g", "h">>
FileCharsUpper == <<"A", "B", "C", "D", "E", "F", "G", "H">>
IsFileLower(ch) == \E i \in 1..8 : FileCharsLower[i] = ch
IsFileUpper(ch) == \E i \in 1..8 : FileCharsUpper[i] = ch
FileOfLower(ch) == (CHOOSE i \in 1..8 : FileCharsLower[i] = ch) - 1
FileOfUpper(ch) == (CHOOSE i \in 1..8 : FileCharsUpper[i] = ch) - 1
RankChars == <<"1", "2", "3", "4", "5", "6", "7", "8">>

\* memset(si, 0, sizeof(StateInfo))
ZeroStateInfo ==
    [pawnKey |-> {}, materialKey |-> {}, nonPawnMaterial |-> [c \in Colors |-> 0],
     castlingRights |-> {}, rule50 |-> 0, pliesFromNull |-> 0, psq |-> 0,
     epSquare |-> SQ_A1, key |-> {}, checkersBB |-> {}, capturedPiece |-> NO_PIECE,
     gate |-> NO_GATE, capturedGate |-> NO_GATE, removedGatingType |-> NO_PIECE_TYPE,
     blockersForKing |-> [c \in Colors |-> {}], pinners |-> [c \in Colors |-> {}],
     checkSquares |-> [pt \in 0..KING |-> {}]]

\* memset(this, 0, sizeof(Position)); fill_n(pieceList, SQ_NONE); st = si
ZeroPosition ==
    [board |-> [s \in Squares |-> NO_PIECE],
     gateBoard |-> [s \in Squares |-> NO_GATE],
     gatingPieces |-> [g \in 0..(GATE_NB - 1) |-> NO_PIECE_TYPE],
     gatingSquares |-> [c \in Colors |-> [g \in 0..(GATE_NB - 1) |-> SQ_A1]],
     byTypeBB |-> [pt \in 0..KING |-> {}],
     byColorBB |-> [c \in Colors |-> {}],
     gateBB |-> {},
     pieceCount |-> [pc \in Pieces |-> 0],
     gateCount |-> 0,
     setupCount |-> [c \in Colors |-> 0],
     pieceList |-> [pc \in Pieces |-> [i \in 0..15 |-> SQ_NONE]],
     index |-> [s \in Squares |-> 0],
     castlingRightsMask |-> [s \in Squares |-> {}],
     castlingRookSquare |-> [cr \in ANY_CASTLING |-> SQ_A1],
     castlingPath |-> [cr \in ANY_CASTLING |-> {}],
     gamePly |-> 0,
     sideToMove |-> WHITE,
     chess960 |-> FALSE,
     st |-> <<ZeroStateInfo>>]

\* 1. Piece placement: the loop over the tokens toks[i..], the cursor at sq.
\* pieceList[pc] has room for 16 squares; a FEN with more pieces of one kind
\* writes past the array, and the model stops reading the placement there.
\* SetRank runs the loop up to the next '/' token and yields the position, the
\* index of the token it stopped at and the cursor.
RECURSIVE SetRank(_, _, _, _)
SetRank(p, toks, i, sq) ==
    IF i > Len(toks) THEN [p |-> p, i |-> i, sq |-> sq]
    ELSE LET token == toks[i] IN
         IF isdigit(token) THEN SetRank(p, toks, i + 1, sq + DigitVal(token) * EAST)
         ELSE IF token = "/" THEN [p |-> p, i |-> i, sq |-> sq]
         ELSE IF PieceOfChar(token) # NO_PIECE
         THEN (IF p.pieceCount[PieceOfChar(token)] >= 16
               THEN [p |-> p, i |-> Len(toks) + 1, sq |-> sq]
               ELSE SetRank(put_piece(p, PieceOfChar(token), sq), toks, i + 1, sq + 1))
         ELSE SetRank(p, toks, i + 1, sq)

RECURSIVE SetPlacement(_, _, _, _)
\* The '/' token at r.i: sq += 2 * SOUTH, and on with the next rank.
NextRank(r, toks) ==
    IF r.i > Len(toks) THEN r.p
    ELSE IF r.sq + 2 * SOUTH < SQ_A1 THEN r.p
    ELSE SetPlacement(r.p, toks, r.i + 1, r.sq + 2 * SOUTH)

SetPlacement(p, toks, i, sq) == NextRank(SetRank(p, toks, i, sq), toks)

\* The gating list between '[' and the next space.
RECURSIVE SetGating(_, _, _)
SetGating(p, toks, i) ==
    IF i > Len(toks) THEN p
    ELSE LET token == toks[i] IN
         IF token = "]" \/ token = "/" THEN SetGating(p, toks, i + 1)
         ELSE IF PieceOfChar(token) # NO_PIECE
         THEN LET pc == PieceOfChar(token)
                  c == color_of(pc)
                  p1 == IF c = WHITE THEN set_gating_type(p, type_of_piece(pc)) ELSE p
                  nxt == IF i + 1 <= Len(toks) THEN toks[i + 1] ELSE token
              IN  IF IsFileLower(nxt)
                  THEN LET p2 == put_gating_piece(p1, c,
                                    make_square(FileOfLower(nxt),
                                                IF c = WHITE THEN RANK_1 ELSE RANK_8))
                       IN  IF i + 2 <= Len(toks) /\ isdigit(toks[i + 2])
                           THEN SetGating(p2, toks, i + 3)
                           ELSE SetGating(p2, toks, i + 2)
                  ELSE IF nxt = "-"
                  THEN SetGating([p1 EXCEPT !.setupCount[c] = @ + 1,
                                            !.gatingSquares[c] =
                                                Put(@, p1.setupCount[c] + 1, SQ_NONE)],
                                 toks, i + 2)
                  ELSE SetGating(p1, toks, i + 2)
         ELSE SetGating(p, toks, i + 1)

set_castling_right(p, c, rfrom) ==
    LET kfrom == square_king(p, c)
        cs == IF kfrom < rfrom THEN KING_SIDE ELSE QUEEN_SIDE
        cr == MakeCastling(c, cs)
        kto == relative_square(c, IF cs = KING_SIDE THEN SQ_G1 ELSE SQ_C1)
        rto == relative_square(c, IF cs = KING_SIDE THEN SQ_F1 ELSE SQ_D1)
        path == {s \in (Min(rfrom, rto)..Max(rfrom, rto)) \cup (Min(kfrom, kto)..Max(kfrom, kto)) :
                    s # kfrom /\ s # rfrom}
        p1 == WithSt(p, [St(p) EXCEPT !.castlingRights = @ \cup {cr}])
    IN  [p1 EXCEPT !.castlingRightsMask =
                        [[@ EXCEPT ![kfrom] = @ \cup {cr}] EXCEPT ![rfrom] = @ \cup {cr}],
                   !.castlingRookSquare[cr] = rfrom,
                   !.castlingPath[cr] = @ \cup path]

\* for (rsq = start; piece_on(rsq) != rook; rsq += step) {}
RECURSIVE RookScan(_, _, _, _)
RookScan(p, rook, rsq, step) ==
    IF ~is_ok(rsq) \/ piece_on(p, rsq) = rook THEN rsq
    ELSE RookScan(p, rook, rsq + step, step)

\* 3. Castling availability.
RECURSIVE SetCastling(_, _, _, _)
SetCastling(p, toks, i, isChess960) ==
    IF i > Len(toks) THEN p
    ELSE LET token == toks[i]
             c == IF token \in {"k", "q"} \/ IsFileLower(token) THEN BLACK ELSE WHITE
             rook == make_piece(c, ROOK)
             up == IF IsFileLower(token) THEN FileCharsUpper[FileOfLower(token) + 1]
                   ELSE IF token = "k" THEN "K" ELSE IF token = "q" THEN "Q" ELSE token
         IN  IF up = "K"
             THEN SetCastling(set_castling_right(p, c,
                                  RookScan(p, rook, relative_square(c, SQ_H1), -1)),
                              toks, i + 1, isChess960)
             ELSE IF up = "Q"
             THEN SetCastling(set_castling_right(p, c,
                                  RookScan(p, rook, relative_square(c, SQ_A1), 1)),
                              toks, i + 1, isChess960)
             ELSE IF isChess960 /\ IsFileUpper(up)
             THEN SetCastling(set_castling_right(p, c,
                                  make_square(FileOfUpper(up), relative_rank(c, RANK_1))),
                              toks, i + 1, isChess960)
             ELSE SetCastling(p, toks, i + 1, isChess960)

\* 4. En passant square, ignored if no pawn capture is possible.
SetEnPassant(p, toks) ==
    LET parsed == Len(toks) >= 2 /\ IsFileLower(toks[1]) /\ toks[2] \in {"3", "6"}
        sq == make_square(FileOfLower(toks[1]), IF toks[2] = "3" THEN 2 ELSE 5)
        ok == /\ (attackers_to(p, sq, pieces(p)) \cap pieces_cpt(p, p.sideToMove, PAWN)) # {}
              /\ (pieces_cpt(p, Opp(p.sideToMove), PAWN)
                    \cap {sq + pawn_push(Opp(p.sideToMove))}) # {}
    IN  WithSt(p, [St(p) EXCEPT !.epSquare = IF parsed /\ ok THEN sq ELSE SQ_NONE])

\* Position::set(fenStr, isChess960, si, th)
set(fen) ==
    LET p1 == SetPlacement(ZeroPosition, fen.placement, 1, SQ_A8)
        p2 == SetGating(p1, fen.gating, 1)
        p3 == [p2 EXCEPT !.sideToMove = IF fen.color = "w" THEN WHITE ELSE BLACK]
        p4 == SetCastling(p3, fen.castling, 1, fen.chess960)
        p5 == SetEnPassant(p4, fen.ep)
        p6 == WithSt(p5, [St(p5) EXCEPT !.rule50 = fen.rule50])
        p7 == [p6 EXCEPT !.gamePly = Max(2 * (fen.fullmove - 1), 0)
                                       + (IF p6.sideToMove = BLACK THEN 1 ELSE 0),
                         !.chess960 = fen.chess960]
    IN  WithSt(p7, set_state(p7, St(p7)))

(***************************************************************************)
(* Moves (types.h).  A move is a record of its type tag, origin,           *)
(* destination and piece-type payload.                                     *)
(***************************************************************************)
NORMAL == "NORMAL"
PROMOTION == "PROMOTION"
ENPASSANT == "ENPASSANT"
CASTLING == "CASTLING"
PROMOTION_LEFT == "PROMOTION_LEFT"
PROMOTION_RIGHT == "PROMOTION_RIGHT"
PROMOTION_STRAIGHT == "PROMOTION_STRAIGHT"
SET_GATING_TYPE == "SET_GATING_TYPE"
PUT_GATING_PIECE == "PUT_GATING_PIECE"

\* make<T>(from, to, pt) and make_move(from, to)
make(T, from, to, pt) == [type |-> T, from |-> from, to |-> to, pt |-> pt]
make_move(from, to) == make(NORMAL, from, to, NO_PIECE_TYPE)
\* type_of(Move): the three promotion tags read as PROMOTION.
type_of(m) ==
    IF m.type \in {PROMOTION_LEFT, PROMOTION_RIGHT, PROMOTION_STRAIGHT} THEN PROMOTION
    ELSE m.type
from_sq(m) == m.from
to_sq(m) == m.to
promotion_type(m) == m.pt
gating_type(m) == m.pt

moved_piece(p, m) ==
    IF type_of(m) \in {SET_GATING_TYPE, PUT_GATING_PIECE}
    THEN make_piece(p.sideToMove, gating_type(m))
    ELSE p.board[from_sq(m)]

(***************************************************************************)
(* do_move / undo_move / do_castling / null moves (position.cpp).          *)
(***************************************************************************)
\* The value read from a StateInfo field: g when the field was never assigned.
Rd(v, g) == IF v = UNINIT THEN g ELSE v

\* memcpy(&newSt, st, offsetof(StateInfo, key)): the fields from key on are
\* those of the caller's object; capturedPiece, gate, capturedGate and
\* removedGatingType stay unassigned until do_move writes them.
NewStateInfo(si) ==
    [si EXCEPT !.capturedPiece = UNINIT, !.gate = UNINIT,
               !.capturedGate = UNINIT, !.removedGatingType = UNINIT]

\* st->psq += d
AddPsq(p, d) == WithSt(p, [St(p) EXCEPT !.psq = @ + d])

\* The end of do_castling<true>, p the position with king and rook on their
\* new squares: a gate under the king or the rook is released (its piece
\* comes onto the board) or, on a square the king or the rook now occupies,
\* dropped.
CastlingGate(p, k, us, from, to, rfrom, rto) ==
    LET s == IF from \in p.gateBB THEN from ELSE rfrom
        gated_piece == make_piece(us, gating_piece_sq(p, s))
    IN  IF (p.gateBB \cap {from, rfrom}) # {}
        THEN IF s # to /\ s # rto
             THEN <<gate_piece(AddPsq(p, PSQT_psq(gated_piece, s)
                                         - PSQT_psq_gate(gated_piece, file_of(s))), us, s),
                    Xor(Xor(k, Zobrist_psq(gated_piece, s)),
                        Zobrist_psq_gate(gated_piece, file_of(s))),
                    to, rfrom, rto>>
             ELSE <<capture_gate(AddPsq(p, -PSQT_psq_gate(gated_piece, file_of(s))), us, s),
                    Xor(k, Zobrist_psq_gate(gated_piece, file_of(s))),
                    to, rfrom, rto>>
        ELSE <<WithSt(p, [St(p) EXCEPT !.capturedGate = NO_GATE]), k, to, rfrom, rto>>

\* board[a] = board[b] = NO_PIECE
ClearBoard(p, a, b) == [p EXCEPT !.board = [[@ EXCEPT ![a] = NO_PIECE] EXCEPT ![b] = NO_PIECE]]

\* do_castling<true>: <<position, key, to, rfrom, rto>>.
do_castling_do(p, us, from, to0, k) ==
    LET kingSide == to0 > from
        rfrom == to0
        rto == relative_square(us, IF kingSide THEN SQ_F1 ELSE SQ_D1)
        to == relative_square(us, IF kingSide THEN SQ_G1 ELSE SQ_C1)
    IN  CastlingGate(
            put_piece(
                put_piece(
                    ClearBoard(remove_piece(remove_piece(p, make_piece(us, KING), from),
                                            make_piece(us, ROOK), rfrom),
                               from, rfrom),
                    make_piece(us, KING), to),
                make_piece(us, ROOK), rto),
            k, us, from, to, rfrom, rto)

\* The start of do_castling<false>: the gate that do_castling<true> released
\* or dropped is put back, on the square chosen from the occupancy of from and
\* rfrom; the unassigned fields of st read as g.
CastlingUngate(p, us, from, to, rfrom, rto, g) ==
    LET s == IF from \in pieces(p) THEN from ELSE rfrom
    IN  IF (pieces(p) \cap {from, rfrom}) # {}
        THEN IF s # to /\ s # rto
             THEN ungate_piece(p, us, s, Rd(St(p).gate, g))
             ELSE IF Rd(St(p).capturedGate, g) > NO_GATE
             THEN uncapture_gate(p, us, s, Rd(St(p).capturedGate, g))
             ELSE p
        ELSE p

\* st->capturedGate = NO_GATE
ClearCapturedGate(p) == WithSt(p, [St(p) EXCEPT !.capturedGate = NO_GATE])

\* do_castling<false>, the unassigned fields of st read as g.
do_castling_undo(p, us, from, to0, g) ==
    LET kingSide == to0 > from
        rfrom == to0
        rto == relative_square(us, IF kingSide THEN SQ_F1 ELSE SQ_D1)
        to == relative_square(us, IF kingSide THEN SQ_G1 ELSE SQ_C1)
    IN  ClearCapturedGate(
            put_piece(
                put_piece(
                    ClearBoard(remove_piece(remove_piece(
                                                CastlingUngate(p, us, from, to, rfrom, rto, g),
                                                make_piece(us, KING), to),
                                            make_piece(us, ROOK), rto),
                               to, rto),
                    make_piece(us, KING), from),
                make_piece(us, ROOK), rfrom))

\* (int(to) ^ int(from)) == 16
XorIs16(a, b) ==
    /\ a % 16 = b % 16
    /\ a \div 32 = b \div 32
    /\ (a \div 16) % 2 # (b \div 16) % 2

\* case SET_GATING_TYPE of do_move: <<position, key>>.
DoSetGatingType(p, m, k) ==
    IF p.gateCount = NO_GATE \/ gating_type(m) # Get(p.gatingPieces, p.gateCount, NO_PIECE_TYPE)
    THEN LET p1 == set_gating_type(p, gating_type(m))
         IN  <<WithSt(p1, [St(p1) EXCEPT !.removedGatingType = NO_PIECE_TYPE]),
               Xor(k, Zobrist_inhand(gating_type(m), p1.gateCount))>>
    ELSE LET k1 == Xor(Xor(Xor(k, Zobrist_inhand(gating_type(m), p.gateCount)),
                           Zobrist_inhand(CANNON, p.gateCount)),
                       Zobrist_inhand(LEOPARD, p.gateCount + 1))
             p1 == set_gating_type(set_gating_type(unset_gating_type(p), CANNON), LEOPARD)
         IN  <<WithSt(p1, [St(p1) EXCEPT !.removedGatingType = gating_type(m)]), k1>>

\* case PUT_GATING_PIECE of do_move: <<position, key>>.
DoPutGatingPiece(p, m, k) ==
    LET us == p.sideToMove
        pc == make_piece(us, gating_type(m))
        p1 == put_gating_piece(p, us, to_sq(m))
    IN  <<AddPsq(p1, PSQT_psq_gate(pc, file_of(to_sq(m)))),
          Xor(k, Zobrist_psq_gate(pc, file_of(to_sq(m))))>>

\* The end of the capture block, p the position without the captured piece:
\* materialKey, the score and rule50.
CaptureScore(p, k, captured, capsq) ==
    <<WithSt(p, [St(p) EXCEPT
          !.materialKey = Xor(@, Zobrist_psq(captured, p.pieceCount[captured])),
          !.psq = @ - PSQT_psq(captured, capsq),
          !.rule50 = 0]),
      Xor(k, Zobrist_psq(captured, capsq))>>

\* The gate under the captured piece, p the position without that piece.
CaptureGate(p, k, them, captured, capsq) ==
    LET gpc == make_piece(them, gating_piece_sq(p, capsq))
    IN  IF capsq \in p.gateBB
        THEN CaptureScore(capture_gate(AddPsq(p, -PSQT_psq_gate(gpc, file_of(capsq))),
                                       them, capsq),
                          Xor(k, Zobrist_psq_gate(gpc, file_of(capsq))), captured, capsq)
        ELSE CaptureScore(ClearCapturedGate(p), k, captured, capsq)

\* The capture block of do_move: <<position, key>>.
DoCapture(p, m, k, captured, to) ==
    LET us == p.sideToMove
        them == Opp(us)
        isPawn == type_of_piece(captured) = PAWN
        capsq == IF isPawn /\ type_of(m) = ENPASSANT THEN to - pawn_push(us) ELSE to
        q == IF isPawn /\ type_of(m) = ENPASSANT THEN [p EXCEPT !.board[capsq] = NO_PIECE] ELSE p
    IN  CaptureGate(
            remove_piece(
                IF isPawn
                THEN WithSt(q, [St(q) EXCEPT !.pawnKey = Xor(@, Zobrist_psq(captured, capsq))])
                ELSE WithSt(p, [St(p) EXCEPT !.nonPawnMaterial[them] = @ - PieceValue(captured)]),
                captured, capsq),
            k, them, captured, capsq)

\* The promotion of the pawn block, p the position with the promoted piece
\* on to.
Promoted(p, k, us, pc, promotion, to) ==
    <<WithSt(p, [St(p) EXCEPT
          !.pawnKey = Xor(@, Zobrist_psq(pc, to)),
          !.materialKey = Xor(Xor(@, Zobrist_psq(promotion, p.pieceCount[promotion] - 1)),
                              Zobrist_psq(pc, p.pieceCount[pc])),
          !.psq = @ + PSQT_psq(promotion, to) - PSQT_psq(pc, to),
          !.nonPawnMaterial[us] = @ + PieceValue(promotion)]),
      Xor(Xor(k, Zobrist_psq(pc, to)), Zobrist_psq(promotion, to))>>

\* The end of the pawn block: the pawn key and rule50; r is <<position, key>>.
PawnKey(r, pc, from, to) ==
    <<WithSt(r[1], [St(r[1]) EXCEPT
          !.pawnKey = Xor(Xor(@, Zobrist_psq(pc, from)), Zobrist_psq(pc, to)),
          !.rule50 = 0]),
      r[2]>>

\* The pawn block of do_move: <<position, key>>.
DoPawn(p, m, k, pc, from, to) ==
    LET us == p.sideToMove
        them == Opp(us)
        dbl == /\ XorIs16(to, from)
               /\ (attacks_from(p, us, PAWN, to - pawn_push(us)) \cap pieces_cpt(p, them, PAWN)) # {}
        promotion == make_piece(us, promotion_type(m))
    IN  PawnKey(IF dbl
                THEN <<WithSt(p, [St(p) EXCEPT !.epSquare = to - pawn_push(us)]),
                       Xor(k, Zobrist_enpassant(file_of(to - pawn_push(us))))>>
                ELSE IF type_of(m) = PROMOTION
                THEN Promoted(put_piece(remove_piece(p, pc, to), promotion, to),
                              k, us, pc, promotion, to)
                ELSE <<p, k>>,
                pc, from, to)

\* The local variables of the default case of do_move: the position p, the
\* key k under construction, from, to, pc and captured; the ply counters are
\* incremented.
MoveLocals(p, m, k) ==
    [p |-> WithSt([p EXCEPT !.gamePly = @ + 1],
                  [St(p) EXCEPT !.rule50 = @ + 1, !.pliesFromNull = @ + 1]),
     k |-> k,
     from |-> from_sq(m),
     to |-> to_sq(m),
     pc |-> piece_on(p, from_sq(m)),
     captured |-> IF type_of(m) = ENPASSANT THEN make_piece(Opp(p.sideToMove), PAWN)
                  ELSE piece_on(p, to_sq(m))]

\* The locals w with position and key replaced by those of r = <<position, key>>.
WithPK(w, r) == [w EXCEPT !.p = r[1], !.k = r[2]]

\* The castling block after do_castling<true> has returned
\* cas = <<position, key, to, rfrom, rto>>: the rook's score and key terms.
CastlingDone(w, cas) ==
    [w EXCEPT !.p = AddPsq(cas[1], PSQT_psq(w.captured, cas[5]) - PSQT_psq(w.captured, cas[4])),
              !.k = Xor(Xor(cas[2], Zobrist_psq(w.captured, cas[4])),
                        Zobrist_psq(w.captured, cas[5])),
              !.to = cas[3],
              !.captured = NO_PIECE]

\* if (type_of(m) == CASTLING)
MoveCastling(w, m) ==
    IF type_of(m) = CASTLING
    THEN CastlingDone(w, do_castling_do(w.p, w.p.sideToMove, w.from, w.to, w.k))
    ELSE w

\* if (captured)
MoveCapture(w, m) ==
    IF w.captured # NO_PIECE
    THEN WithPK(w, DoCapture(w.p, m, w.k, w.captured, w.to))
    ELSE w

\* The key terms of the moved piece, and the reset of the en-passant square.
MoveEpSquare(w) ==
    LET k1 == Xor(Xor(w.k, Zobrist_psq(w.pc, w.from)), Zobrist_psq(w.pc, w.to))
    IN  IF St(w.p).epSquare # SQ_NONE
        THEN [w EXCEPT !.p = WithSt(w.p, [St(w.p) EXCEPT !.epSquare = SQ_NONE]),
                       !.k = Xor(k1, Zobrist_enpassant(file_of(St(w.p).epSquare)))]
        ELSE [w EXCEPT !.k = k1]

\* The update of the castling rights.
MoveCastlingRights(w) ==
    LET cr == w.p.castlingRightsMask[w.from] \cup w.p.castlingRightsMask[w.to]
    IN  IF St(w.p).castlingRights # {} /\ cr # {}
        THEN [w EXCEPT !.p = WithSt(w.p, [St(w.p) EXCEPT !.castlingRights = @ \ cr]),
                       !.k = Xor(w.k, Zobrist_castling(St(w.p).castlingRights \cap cr))]
        ELSE w

\* if (gateBB & from), pm the position after move_piece: the piece waiting on
\* the gate of from, of the mover's colour, comes onto the board.
GateRelease(w, pm) ==
    LET us == pm.sideToMove
        gated_piece == make_piece(us, gating_piece_sq(pm, w.from))
    IN  IF w.from \in pm.gateBB
        THEN [w EXCEPT !.p = gate_piece(AddPsq(pm, PSQT_psq(gated_piece, w.from)
                                        - PSQT_psq_gate(gated_piece, file_of(w.from))),
                                        us, w.from),
                       !.k = Xor(Xor(w.k, Zobrist_psq(gated_piece, w.from)),
                                 Zobrist_psq_gate(gated_piece, file_of(w.from)))]
        ELSE [w EXCEPT !.p = pm]

\* if (type_of(m) != CASTLING): move_piece and the release of the gate.
MovePiece(w, m) ==
    IF type_of(m) = CASTLING THEN w
    ELSE GateRelease(w, move_piece(w.p, w.pc, w.from, w.to))

\* if (type_of(pc) == PAWN)
MovePawn(w, m) ==
    IF type_of_piece(w.pc) = PAWN
    THEN WithPK(w, DoPawn(w.p, m, w.k, w.pc, w.from, w.to))
    ELSE w

\* The incremental score and st->capturedPiece: <<position, key>>.
MoveScore(w) ==
    <<WithSt(w.p, [St(w.p) EXCEPT !.psq = @ + PSQT_psq(w.pc, w.to) - PSQT_psq(w.pc, w.from),
                                  !.capturedPiece = w.captured]),
      w.k>>

\* The default case of do_move (a move on the board): <<position, key>>.
DoBoardMove(p, m, k) ==
    MoveScore(
        MovePawn(
            MovePiece(
                MoveCastlingRights(
                    MoveEpSquare(
                        MoveCapture(
                            MoveCastling(MoveLocals(p, m, k), m),
                            m))),
                m),
            m))

\* set_check_info(st)
SetCheckInfo(p) == WithSt(p, set_check_info(p, St(p)))

\* The end of do_move, r = <<position, key>> what the switch produced:
\* checkersBB, the key, the side to move and the check info.
DoMoveFinish(r, givesCheck) ==
    LET us == r[1].sideToMove
        them == Opp(us)
    IN  SetCheckInfo(
            [WithSt(r[1], [St(r[1]) EXCEPT
                 !.checkersBB = IF givesCheck
                                THEN attackers_to(r[1], square_king(r[1], them), pieces(r[1]))
                                        \cap pieces_c(r[1], us)
                                ELSE {},
                 !.key = r[2]])
             EXCEPT !.sideToMove = Opp(@)])

\* The switch of do_move with the ply counter incremented for every move type.
DoMoveSwitch_CountsSetupPlies(p, m, k) ==
    IF type_of(m) = SET_GATING_TYPE
    THEN DoSetGatingType([p EXCEPT !.gamePly = @ + 1], m, k)
    ELSE IF type_of(m) = PUT_GATING_PIECE
    THEN DoPutGatingPiece([p EXCEPT !.gamePly = @ + 1], m, k)
    ELSE DoBoardMove(p, m, k)

\* switch (type_of(m)) of do_move, p the position with the new StateInfo.
DoMoveSwitch(p, m, k) ==
    IF type_of(m) = SET_GATING_TYPE THEN DoSetGatingType(p, m, k)
    ELSE IF type_of(m) = PUT_GATING_PIECE THEN DoPutGatingPiece(p, m, k)
    ELSE DoBoardMove(p, m, k)

\* Position::do_move(m, newSt, givesCheck)
do_move3(p, m, givesCheck) ==
    DoMoveFinish(DoMoveSwitch([p EXCEPT !.st = Append(@, NewStateInfo(St(p)))],
                              m, Xor(St(p).key, Zobrist_side)),
                 givesCheck)

\* gives_check that knows direct checks only.
gives_check_DirectOnly(p, m) ==
    /\ game_phase(p) = GAMEPHASE_PLAYING
    /\ to_sq(m) \in St(p).checkSquares[type_of_piece(piece_on(p, from_sq(m)))]

\* Position::gives_check(m)
gives_check(p, m) ==
    LET us == p.sideToMove
        from == from_sq(m)
        to == to_sq(m)
        ksq == square_king(p, Opp(us))
        kfrom == from
        rfrom == to
        kto == relative_square(us, IF rfrom > kfrom THEN SQ_G1 ELSE SQ_C1)
        rto == relative_square(us, IF rfrom > kfrom THEN SQ_F1 ELSE SQ_D1)
        b == Xor(Xor(pieces(p), {from}), {make_square(file_of(to), rank_of(from))}) \cup {to}
    IN  IF game_phase(p) # GAMEPHASE_PLAYING THEN FALSE
        ELSE IF to \in St(p).checkSquares[type_of_piece(piece_on(p, from))] THEN TRUE
        ELSE IF /\ from \in St(p).blockersForKing[Opp(us)]
                /\ \/ ~aligned(from, to, ksq)
                   \/ (attackers_to(p, ksq, Xor(Xor(pieces(p), {from}), {to}))
                          \cap pieces_c(p, us)) # {}
        THEN TRUE
        ELSE IF /\ from \in p.gateBB
                /\ ksq \in attacks_bb(us, gating_piece_sq(p, from), from, Xor(pieces(p), {to}))
        THEN TRUE
        ELSE CASE type_of(m) = NORMAL -> FALSE
               [] type_of(m) = PROMOTION ->
                    ksq \in attacks_bb(us, promotion_type(m), to, Xor(pieces(p), {from}))
               [] type_of(m) = ENPASSANT ->
                    (attackers_to(p, ksq, b) \cap pieces_c(p, us) \cap b) # {}
               [] type_of(m) = CASTLING ->
                    IF /\ rfrom \in p.gateBB
                       /\ ksq \in attacks_bb(us, gating_piece_sq(p, rfrom), rfrom,
                                     Xor(Xor(Xor(pieces(p), {kfrom}), {kto}), {rto}))
                    THEN TRUE
                    ELSE /\ ksq \in PseudoAttacks[us][ROOK][rto]
                         /\ ksq \in attacks_bb(WHITE, ROOK, rto,
                                       Xor(Xor(pieces(p), {kfrom}), {rfrom}) \cup {rto, kto})
               [] OTHER -> FALSE

\* Position::do_move(m, newSt)
do_move(p, m) == do_move3(p, m, gives_check(p, m))

\* Position::undo_move(m), the unassigned fields of st read as g.
undo_move(p, m, g) ==
    LET p0 == [p EXCEPT !.sideToMove = Opp(@)]
        us == p0.sideToMove
        from == from_sq(m)
        to == to_sq(m)
        removed == Rd(St(p0).removedGatingType, g)
        \* case SET_GATING_TYPE
        sel == LET q == unset_gating_type(p0)
               IN  IF removed # NO_PIECE_TYPE
                   THEN set_gating_type(unset_gating_type(q), removed)
                   ELSE q
        \* the default case
        isProm == type_of(m) = PROMOTION
        pa == IF isProm
              THEN put_piece(remove_piece(p0, piece_on(p0, to), to), make_piece(us, PAWN), to)
              ELSE p0
        pc == IF isProm THEN make_piece(us, PAWN) ELSE piece_on(p0, to)
        pb == IF from \in pieces(pa) THEN ungate_piece(pa, us, from, Rd(St(pa).gate, g)) ELSE pa
        pm == move_piece(pb, pc, to, from)
        capturedPiece == Rd(St(pm).capturedPiece, g)
        capsq == IF type_of(m) = ENPASSANT THEN to - pawn_push(us) ELSE to
        pcap == IF capturedPiece # NO_PIECE
                THEN LET q == put_piece(pm, capturedPiece, capsq)
                     IN  IF Rd(St(q).capturedGate, g) > NO_GATE
                         THEN uncapture_gate(q, Opp(us), capsq, Rd(St(q).capturedGate, g))
                         ELSE q
                ELSE pm
        brd == IF type_of(m) = CASTLING THEN do_castling_undo(pa, us, from, to, g) ELSE pcap
        p1 == IF type_of(m) = SET_GATING_TYPE THEN sel
              ELSE IF type_of(m) = PUT_GATING_PIECE THEN remove_gating_piece(p0, us, to)
              ELSE [brd EXCEPT !.gamePly = @ - 1]
    IN  [p1 EXCEPT !.st = SubSeq(@, 1, Len(@) - 1)]

\* do_null_move that counts the null move as a ply since the last null move.
do_null_move_CountsPly(p) ==
    LET si == St(p)
        hadEp == si.epSquare # SQ_NONE
        k1 == IF hadEp THEN Xor(si.key, Zobrist_enpassant(file_of(si.epSquare))) ELSE si.key
        si1 == [si EXCEPT !.key = Xor(k1, Zobrist_side),
                          !.epSquare = SQ_NONE,
                          !.rule50 = @ + 1,
                          !.pliesFromNull = @ + 1]
    IN  SetCheckInfo([p EXCEPT !.st = Append(@, si1), !.sideToMove = Opp(@)])

\* Position::do_null_move(newSt)
do_null_move(p) ==
    LET si == St(p)
        hadEp == si.epSquare # SQ_NONE
        k1 == IF hadEp THEN Xor(si.key, Zobrist_enpassant(file_of(si.epSquare))) ELSE si.key
        si1 == [si EXCEPT !.key = Xor(k1, Zobrist_side),
                          !.epSquare = SQ_NONE,
                          !.rule50 = @ + 1,
                          !.pliesFromNull = 0]
    IN  SetCheckInfo([p EXCEPT !.st = Append(@, si1), !.sideToMove = Opp(@)])

\* Position::undo_null_move()
undo_null_move(p) ==
    [p EXCEPT !.st = SubSeq(@, 1, Len(@) - 1), !.sideToMove = Opp(@)]

\* Position::legal(m)
legal(p, m) ==
    LET us == p.sideToMove
        from == from_sq(m)
        to == to_sq(m)
        ksq == square_king(p, us)
        capsq == to - pawn_push(us)
        occupied == Xor(Xor(pieces(p), {from}), {capsq}) \cup {to}
    IN  IF type_of(m) \in {SET_GATING_TYPE, PUT_GATING_PIECE} THEN TRUE
        ELSE IF type_of(m) = ENPASSANT
        THEN (attackers_to(p, ksq, occupied) \cap pieces_c(p, Opp(us)) \cap occupied) = {}
        ELSE IF type_of_piece(piece_on(p, from)) = KING
        THEN \/ type_of(m) = CASTLING
             \/ (attackers_to(p, to, pieces(p)) \cap pieces_c(p, Opp(us))) = {}
        ELSE \/ from \notin blockers_for_king(p, us)
             \/ ((attackers_to(p, ksq, Xor(pieces(p), {from}) \cup {to})
                    \cap pieces_c(p, Opp(us))) \ {to}) = {}

(***************************************************************************)
(* Custom-piece attacks (betza.cpp).                                       *)
(***************************************************************************)
\* The first of the identifiers reserved for custom pieces.
CUSTOM_PIECES == 17
is_custom(pt) == pt >= CUSTOM_PIECES

KnightOffsets ==
    {<<2, 1>>, <<2, -1>>, <<-2, 1>>, <<-2, -1>>, <<1, 2>>, <<1, -2>>, <<-1, 2>>, <<-1, -2>>}
WazirOffsets == {<<1, 0>>, <<-1, 0>>, <<0, 1>>, <<0, -1>>}
FerzOffsets == {<<1, 1>>, <<1, -1>>, <<-1, 1>>, <<-1, -1>>}
BetzaPattern(offsets, isRider, captureOnly, quietOnly) ==
    [offsets |-> offsets, isRider |-> isRider,
     captureOnly |-> captureOnly, quietOnly |-> quietOnly]

\* BetzaManager::init(): the patterns of CUSTOM_PIECE_1 .. CUSTOM_PIECE_9.
customPieces ==
    [n \in 1..9 |->
       CASE n = 1 -> {BetzaPattern(KnightOffsets, FALSE, FALSE, FALSE)}
         [] n \in {2, 7} -> {BetzaPattern(WazirOffsets \cup FerzOffsets, FALSE, FALSE, FALSE)}
         [] n = 3 -> {BetzaPattern(WazirOffsets, TRUE, FALSE, FALSE)}
         [] n = 4 -> {BetzaPattern(FerzOffsets, TRUE, FALSE, FALSE)}
         [] n = 5 -> {BetzaPattern(WazirOffsets \cup FerzOffsets, TRUE, FALSE, FALSE)}
         [] n = 6 -> {BetzaPattern({<<0, 1>>}, FALSE, FALSE, TRUE),
                      BetzaPattern({<<1, 1>>, <<-1, 1>>}, FALSE, TRUE, FALSE)}
         [] n = 8 -> {BetzaPattern(WazirOffsets, TRUE, FALSE, FALSE),
                      BetzaPattern(KnightOffsets, FALSE, FALSE, FALSE)}
         [] n = 9 -> {BetzaPattern({<<3, 0>>, <<-3, 0>>, <<0, 3>>, <<0, -3>>},
                                   FALSE, FALSE, FALSE),
                      BetzaPattern(WazirOffsets, FALSE, FALSE, FALSE)}]

\* The ray of a rider from square cur: every step must stay on the board and
\* change the file by |fileOffset|; the first occupied square ends the ray.
RECURSIVE BetzaRay(_, _, _, _)
BetzaRay(cur, fo, ro, occupied) ==
    LET nxt == cur + fo + 8 * ro
    IN  IF nxt < SQ_A1 \/ nxt > SQ_H8 THEN {}
        ELSE IF Abs(file_of(nxt) - file_of(cur)) # Abs(fo) THEN {}
        ELSE IF nxt \in occupied THEN {nxt}
        ELSE {nxt} \cup BetzaRay(nxt, fo, ro, occupied)

\* BetzaManager::getAttacks(pt, from, occupied, capturesOnly)
getAttacks(pt, from, occupied, capturesOnly) ==
    IF (pt - CUSTOM_PIECES + 1) \notin DOMAIN customPieces THEN {}
    ELSE UNION {UNION {
            IF pat.isRider THEN BetzaRay(from, o[1], o[2], occupied)
            ELSE LET nxt == from + o[1] + 8 * o[2]
                 IN  IF /\ nxt >= SQ_A1 /\ nxt <= SQ_H8
                        /\ Abs(file_of(nxt) - file_of(from)) = Abs(o[1])
                        /\ Abs(rank_of(nxt) - rank_of(from)) = Abs(o[2])
                     THEN {nxt} ELSE {}
            : o \in pat.offsets}
          : pat \in {q \in customPieces[pt - CUSTOM_PIECES + 1] :
                        /\ ~(capturesOnly /\ q.quietOnly)
                        /\ ~(~capturesOnly /\ q.captureOnly)}}

\* Position::attacks_from_betza(c, pt, s): the occupancy argument is left to
\* its default, the empty bitboard.
attacks_from_betza(p, c, pt, s) == getAttacks(pt, s, {}, FALSE)

(***************************************************************************)
(* Move generator (movegen.cpp).  A move list is a sequence, in the order  *)
(* the generator appends the moves.                                        *)
(***************************************************************************)
CAPTURES == "CAPTURES"
QUIETS == "QUIETS"
QUIET_CHECKS == "QUIET_CHECKS"
EVASIONS == "EVASIONS"
NON_EVASIONS == "NON_EVASIONS"

\* The concatenation of a sequence of sequences.
RECURSIVE Flatten(_)
Flatten(ss) == IF ss = <<>> THEN <<>> ELSE Head(ss) \o Flatten(Tail(ss))

\* while (b) *moveList++ = F(pop_lsb(&b))
MovesOf(b, F(_)) == LET s == BBSeq(b) IN [i \in 1..Len(s) |-> F(s[i])]

\* pos.squares(us, pt): the piece list read up to its first SQ_NONE.
squares(p, pc) ==
    LET l == p.pieceList[pc]
        n == IF \E i \in 0..15 : l[i] = SQ_NONE
             THEN CHOOSE i \in 0..15 : l[i] = SQ_NONE /\ \A j \in 0..(i - 1) : l[j] # SQ_NONE
             ELSE 16
    IN  [i \in 1..n |-> l[i - 1]]

generate_castling(p, Cr, Checks, Chess960, us) ==
    LET KingSide == Cr \in {WHITE_OO, BLACK_OO}
        kfrom == square_king(p, us)
        rfrom == p.castlingRookSquare[Cr]
        kto == relative_square(us, IF KingSide THEN SQ_G1 ELSE SQ_C1)
        enemies == pieces_c(p, Opp(us))
        step == IF Chess960 THEN (IF kto > kfrom THEN WEST ELSE EAST)
                ELSE (IF KingSide THEN WEST ELSE EAST)
        \* the squares kto, kto + step, ... before kfrom
        path == {s \in Squares : s # kfrom /\ (kfrom - s) * step > 0 /\ (s - kto) * step >= 0}
        m == make(CASTLING, kfrom, rfrom, NO_PIECE_TYPE)
    IN  IF castling_impeded(p, Cr) \/ can_castle(p, {Cr}) = {} THEN <<>>
        ELSE IF \E s \in path : (attackers_to(p, s, pieces(p)) \cap enemies) # {} THEN <<>>
        ELSE IF Chess960 /\ (attackers_to(p, kto, Xor(pieces(p), {rfrom})) \cap enemies) # {}
        THEN <<>>
        ELSE IF Checks /\ ~gives_check(p, m) THEN <<>>
        ELSE <<m>>

\* make_promotions that emits the queen promotion among the quiet moves too.
make_promotions_QueenInQuiets(p, c, Type, D, to, ksq) ==
    LET T == IF D \in {NORTH_WEST, SOUTH_WEST} THEN PROMOTION_LEFT
             ELSE IF D \in {NORTH_EAST, SOUTH_EAST} THEN PROMOTION_RIGHT
             ELSE PROMOTION_STRAIGHT
    IN  (IF Type \in {CAPTURES, QUIETS, EVASIONS, NON_EVASIONS}
         THEN <<make(T, to - D, to, QUEEN)>> ELSE <<>>)
     \o (IF Type \in {QUIETS, EVASIONS, NON_EVASIONS}
         THEN <<make(T, to - D, to, ROOK), make(T, to - D, to, BISHOP),
                make(T, to - D, to, KNIGHT)>>
              \o [g \in GATE_1..(GATE_NB - 1) |-> make(T, to - D, to, gating_piece(p, g))]
         ELSE <<>>)

\* make_promotions<c, Type, D>(pos, moveList, to, ksq)
make_promotions(p, c, Type, D, to, ksq) ==
    LET T == IF D \in {NORTH_WEST, SOUTH_WEST} THEN PROMOTION_LEFT
             ELSE IF D \in {NORTH_EAST, SOUTH_EAST} THEN PROMOTION_RIGHT
             ELSE PROMOTION_STRAIGHT
    IN  (IF Type \in {CAPTURES, EVASIONS, NON_EVASIONS}
         THEN <<make(T, to - D, to, QUEEN)>> ELSE <<>>)
     \o (IF Type \in {QUIETS, EVASIONS, NON_EVASIONS}
         THEN <<make(T, to - D, to, ROOK), make(T, to - D, to, BISHOP),
                make(T, to - D, to, KNIGHT)>>
              \o [g \in GATE_1..(GATE_NB - 1) |-> make(T, to - D, to, gating_piece(p, g))]
         ELSE <<>>)
     \o (IF Type = QUIET_CHECKS /\ ksq \in PseudoAttacks[c][KNIGHT][to]
         THEN <<make(T, to - D, to, KNIGHT)>> ELSE <<>>)

file_bb(s) == {x \in Squares : file_of(x) = file_of(s)}

generate_pawn_moves(p, Us, Type, target) ==
    LET Them == Opp(Us)
        Up == IF Us = WHITE THEN NORTH ELSE SOUTH
        UpRight == IF Us = WHITE THEN NORTH_EAST ELSE SOUTH_WEST
        UpLeft == IF Us = WHITE THEN NORTH_WEST ELSE SOUTH_EAST
        pawnsOn7 == pieces_cpt(p, Us, PAWN) \cap TRank7BB(Us)
        pawnsNotOn7 == pieces_cpt(p, Us, PAWN) \ TRank7BB(Us)
        enemies == IF Type = EVASIONS THEN pieces_c(p, Them) \cap target
                   ELSE IF Type = CAPTURES THEN target ELSE pieces_c(p, Them)
        emptySquares == IF Type \in {QUIETS, QUIET_CHECKS} THEN target ELSE Squares \ pieces(p)
        \* single and double pushes
        ksq == square_king(p, Them)
        b1a == shift(Up, pawnsNotOn7) \cap emptySquares
        b2a == shift(Up, b1a \cap TRank3BB(Us)) \cap emptySquares
        dcCandidates == blockers_for_king(p, Them)
        dc1 == (shift(Up, pawnsNotOn7 \cap dcCandidates) \cap emptySquares) \ file_bb(ksq)
        dc2 == shift(Up, dc1 \cap TRank3BB(Us)) \cap emptySquares
        hasDc == (pawnsNotOn7 \cap dcCandidates) # {}
        b1 == IF Type = EVASIONS THEN b1a \cap target
              ELSE IF Type = QUIET_CHECKS
              THEN (b1a \cap attacks_from(p, Them, PAWN, ksq)) \cup (IF hasDc THEN dc1 ELSE {})
              ELSE b1a
        b2 == IF Type = EVASIONS THEN b2a \cap target
              ELSE IF Type = QUIET_CHECKS
              THEN (b2a \cap attacks_from(p, Them, PAWN, ksq)) \cup (IF hasDc THEN dc2 ELSE {})
              ELSE b2a
        pushes == IF Type # CAPTURES
                  THEN MovesOf(b1, LAMBDA to : make_move(to - Up, to))
                       \o MovesOf(b2, LAMBDA to : make_move(to - Up - Up, to))
                  ELSE <<>>
        \* promotions and underpromotions
        emptyProm == IF Type = EVASIONS THEN emptySquares \cap target ELSE emptySquares
        proms == IF pawnsOn7 # {} /\ (Type # EVASIONS \/ (target \cap TRank8BB(Us)) # {})
                 THEN Flatten(MovesOf(shift(UpRight, pawnsOn7) \cap enemies,
                                  LAMBDA to : make_promotions(p, Us, Type, UpRight, to, ksq)))
                   \o Flatten(MovesOf(shift(UpLeft, pawnsOn7) \cap enemies,
                                  LAMBDA to : make_promotions(p, Us, Type, UpLeft, to, ksq)))
                   \o Flatten(MovesOf(shift(Up, pawnsOn7) \cap emptyProm,
                                  LAMBDA to : make_promotions(p, Us, Type, Up, to, ksq)))
                 ELSE <<>>
        \* standard and en passant captures
        epOk == /\ ep_square(p) # SQ_NONE
                /\ ~(Type = EVASIONS /\ (ep_square(p) - Up) \notin target)
        caps == IF Type \in {CAPTURES, EVASIONS, NON_EVASIONS}
                THEN MovesOf(shift(UpRight, pawnsNotOn7) \cap enemies,
                             LAMBDA to : make_move(to - UpRight, to))
                  \o MovesOf(shift(UpLeft, pawnsNotOn7) \cap enemies,
                             LAMBDA to : make_move(to - UpLeft, to))
                  \o (IF epOk
                      THEN MovesOf(pawnsNotOn7 \cap attacks_from(p, Them, PAWN, ep_square(p)),
                                   LAMBDA from : make(ENPASSANT, from, ep_square(p), NO_PIECE_TYPE))
                      ELSE <<>>)
                ELSE <<>>
    IN  pushes \o proms \o caps

generate_moves(p, Checks, us, pt, target) ==
    LET pl == squares(p, make_piece(us, pt))
        movesFrom(from) ==
            IF Checks /\ from \in blockers_for_king(p, Opp(us)) THEN <<>>
            ELSE MovesOf((attacks_from(p, us, pt, from) \cap target)
                             \cap (IF Checks THEN check_squares(p, pt) ELSE Squares),
                         LAMBDA to : make_move(from, to))
    IN  Flatten([i \in 1..Len(pl) |-> movesFrom(pl[i])])

generate_custom_moves(p, Checks, us, pt, target) ==
    LET pl == squares(p, make_piece(us, pt))
        movesFrom(from) ==
            IF Checks /\ from \in blockers_for_king(p, Opp(us)) THEN <<>>
            ELSE MovesOf((attacks_from_betza(p, us, pt, from) \cap target)
                             \cap (IF Checks THEN check_squares(p, pt) ELSE Squares),
                         LAMBDA to : make_move(from, to))
    IN  Flatten([i \in 1..Len(pl) |-> movesFrom(pl[i])])

generate_all(p, Us, Type, target) ==
    LET Checks == Type = QUIET_CHECKS
        ksq == square_king(p, Us)
    IN  generate_pawn_moves(p, Us, Type, target)
     \o Flatten([i \in 1..(KING - KNIGHT) |->
                    LET pt == KNIGHT + i - 1
                    IN  IF is_custom(pt) THEN generate_custom_moves(p, Checks, Us, pt, target)
                        ELSE generate_moves(p, Checks, Us, pt, target)])
     \o (IF Type # QUIET_CHECKS /\ Type # EVASIONS
         THEN MovesOf(attacks_from(p, Us, KING, ksq) \cap target,
                      LAMBDA to : make_move(ksq, to))
         ELSE <<>>)
     \o (IF Type # CAPTURES /\ Type # EVASIONS /\ can_castle(p, ColorCastling(Us)) # {}
         THEN generate_castling(p, MakeCastling(Us, KING_SIDE), Checks, p.chess960, Us)
           \o generate_castling(p, MakeCastling(Us, QUEEN_SIDE), Checks, p.chess960, Us)
         ELSE <<>>)

\* generate<SELECTIONS>
generate_SELECTIONS ==
    [i \in 1..(KING - QUEEN - 1) |-> make(SET_GATING_TYPE, SQ_A1, SQ_A1, QUEEN + i)]

\* generate<PLACEMENTS> without the mutual exclusion of king and rook gates.
generate_PLACEMENTS_NoExclusion(p) ==
    LET us == p.sideToMove
        b == (IF us = WHITE THEN Rank1BB ELSE Rank8BB) \ p.gateBB
        pt == Get(p.gatingPieces, p.setupCount[us] + 1, NO_PIECE_TYPE)
    IN  MovesOf(b, LAMBDA to : make(PUT_GATING_PIECE, SQ_A1, to, pt))

\* generate<PLACEMENTS> with the exclusion applied only when the king stands
\* on a gate.
generate_PLACEMENTS_KingBranchOnly(p) ==
    LET us == p.sideToMove
        b0 == (IF us = WHITE THEN Rank1BB ELSE Rank8BB) \ p.gateBB
        b == IF (pieces_cpt(p, us, KING) \cap p.gateBB) # {} THEN b0 \ pieces_cpt(p, us, ROOK)
             ELSE b0
        pt == Get(p.gatingPieces, p.setupCount[us] + 1, NO_PIECE_TYPE)
    IN  MovesOf(b, LAMBDA to : make(PUT_GATING_PIECE, SQ_A1, to, pt))

\* generate<PLACEMENTS>
generate_PLACEMENTS(p) ==
    LET us == p.sideToMove
        b0 == (IF us = WHITE THEN Rank1BB ELSE Rank8BB) \ p.gateBB
        b == IF (pieces_cpt(p, us, KING) \cap p.gateBB) # {} THEN b0 \ pieces_cpt(p, us, ROOK)
             ELSE IF (pieces_cpt(p, us, ROOK) \cap p.gateBB) # {}
             THEN b0 \ pieces_cpt(p, us, KING)
             ELSE b0
        pt == Get(p.gatingPieces, p.setupCount[us] + 1, NO_PIECE_TYPE)
    IN  MovesOf(b, LAMBDA to : make(PUT_GATING_PIECE, SQ_A1, to, pt))

\* generate<CAPTURES>, generate<QUIETS>, generate<NON_EVASIONS>
generate(p, Type) ==
    LET us == p.sideToMove
        target == IF Type = CAPTURES THEN pieces_c(p, Opp(us))
                  ELSE IF Type = QUIETS THEN Squares \ pieces(p)
                  ELSE Squares \ pieces_c(p, us)
    IN  IF game_phase(p) # GAMEPHASE_PLAYING
        THEN IF Type \in {QUIETS, NON_EVASIONS}
             THEN (IF game_phase(p) = GAMEPHASE_SELECTION THEN generate_SELECTIONS
                   ELSE generate_PLACEMENTS(p))
             ELSE <<>>
        ELSE generate_all(p, us, Type, target)

\* generate<EVASIONS> that goes on after the king moves in a double check.
generate_EVASIONS_NoDoubleCheckStop(p) ==
    LET us == p.sideToMove
        ksq == square_king(p, us)
        sliderAttacks ==
            UNION {attacks_bb(Opp(us), type_of_piece(piece_on(p, checksq)), checksq,
                              Xor(pieces(p), {ksq})) : checksq \in checkers(p)}
        b == (attacks_from(p, us, KING, ksq) \ pieces_c(p, us)) \ sliderAttacks
        checksq == lsb(checkers(p))
        target == IF ksq \in LeaperAttacks[Opp(us)][type_of_piece(piece_on(p, checksq))][checksq]
                  THEN {checksq}
                  ELSE between_bb(checksq, ksq) \cup {checksq}
    IN  IF game_phase(p) # GAMEPHASE_PLAYING THEN <<>>
        ELSE MovesOf(b, LAMBDA to : make_move(ksq, to))
          \o generate_all(p, us, EVASIONS, target)

\* generate<EVASIONS>
generate_EVASIONS(p) ==
    LET us == p.sideToMove
        ksq == square_king(p, us)
        sliderAttacks ==
            UNION {attacks_bb(Opp(us), type_of_piece(piece_on(p, checksq)), checksq,
                              Xor(pieces(p), {ksq})) : checksq \in checkers(p)}
        b == (attacks_from(p, us, KING, ksq) \ pieces_c(p, us)) \ sliderAttacks
        checksq == lsb(checkers(p))
        target == IF ksq \in LeaperAttacks[Opp(us)][type_of_piece(piece_on(p, checksq))][checksq]
                  THEN {checksq}
                  ELSE between_bb(checksq, ksq) \cup {checksq}
    IN  IF game_phase(p) # GAMEPHASE_PLAYING THEN <<>>
        ELSE MovesOf(b, LAMBDA to : make_move(ksq, to))
          \o (IF more_than_one(checkers(p)) THEN <<>>
              ELSE generate_all(p, us, EVASIONS, target))

\* generate<QUIET_CHECKS>
generate_QUIET_CHECKS(p) ==
    LET us == p.sideToMove
        dc == BBSeq(blockers_for_king(p, Opp(us)) \cap pieces_c(p, us))
        movesFrom(from) ==
            LET pt == type_of_piece(piece_on(p, from))
                b == attacks_from(p, us, pt, from) \ pieces(p)
            IN  IF pt = PAWN THEN <<>>
                ELSE MovesOf(IF pt = KING
                             THEN b \ PseudoAttacks[Opp(us)][QUEEN][square_king(p, Opp(us))]
                             ELSE b,
                             LAMBDA to : make_move(from, to))
    IN  IF game_phase(p) # GAMEPHASE_PLAYING THEN <<>>
        ELSE Flatten([i \in 1..Len(dc) |-> movesFrom(dc[i])])
          \o generate_all(p, us, QUIET_CHECKS, Squares \ pieces(p))

\* The filter loop of generate<LEGAL>: an illegal move at cur is overwritten by
\* the last move of the list.
RECURSIVE LegalLoop(_, _, _, _, _)
LegalLoop(p, list, cur, pinned, ksq) ==
    IF cur > Len(list) THEN list
    ELSE IF /\ (pinned # {} \/ from_sq(list[cur]) = ksq \/ type_of(list[cur]) = ENPASSANT)
            /\ ~legal(p, list[cur])
    THEN LegalLoop(p,
                   [i \in 1..(Len(list) - 1) |-> IF i = cur THEN list[Len(list)] ELSE list[i]],
                   cur, pinned, ksq)
    ELSE LegalLoop(p, list, cur + 1, pinned, ksq)

\* generate<LEGAL>
generate_LEGAL(p) ==
    LET us == p.sideToMove
        pinned == blockers_for_king(p, us) \cap pieces_c(p, us)
        ksq == square_king(p, us)
    IN  LegalLoop(p, IF checkers(p) # {} THEN generate_EVASIONS(p)
                     ELSE generate(p, NON_EVASIONS),
                  1, pinned, ksq)

(***************************************************************************)
(* The state machine: a Position driven by a caller that loads a FEN and   *)
(* then makes and takes back moves on one StateInfo stack.                 *)
(***************************************************************************)
VARIABLES
    pos,      \* the Position
    hist,     \* the caller's stack: one entry for each StateInfo pushed
    last      \* the operation that produced this state, the position it was
              \* applied to, and the moves taken back since the last move made

vars == <<pos, hist, last>>

\* The FEN strings the caller loads.
Fens ==
    <<
      [placement |-> <<"4", "k", "3", "/", "8", "/", "8", "/", "8", "/", "8", "/", "8", "/", "8", "/", "4", "K", "3">>, gating |-> <<>>, color |-> "w", castling |-> <<"-">>, ep |-> <<"-">>, rule50 |-> 0, fullmove |-> 1, chess960 |-> FALSE],
      [placement |-> <<"r", "n", "b", "q", "k", "b", "n", "r", "/", "8", "/", "8", "/", "8", "/", "8", "/", "8", "/", "8", "/", "R", "N", "B", "Q", "K", "B", "N", "R">>, gating |-> <<"C", "e", "L", "?", "c", "a", "l", "?", "]">>, color |-> "w", castling |-> <<"K", "Q", "k", "q">>, ep |-> <<"-">>, rule50 |-> 0, fullmove |-> 1, chess960 |-> FALSE],
      [placement |-> <<"r", "n", "2", "k", "3", "/", "8", "/", "8", "/", "8", "/", "8", "/", "8", "/", "8", "/", "R", "3", "K", "2", "R">>, gating |-> <<"C", "a", "L", "h", "c", "e", "l", "b", "]">>, color |-> "w", castling |-> <<"K", "Q", "q">>, ep |-> <<"-">>, rule50 |-> 0, fullmove |-> 1, chess960 |-> FALSE],
      [placement |-> <<"4", "k", "3", "/", "8", "/", "8", "/", "8", "/", "8", "/", "8", "/", "8", "/", "1", "N", "4", "K", "R">>, gating |-> <<"L", "b", "C", "h", "l", "-", "c", "-", "]">>, color |-> "w", castling |-> <<"H">>, ep |-> <<"-">>, rule50 |-> 0, fullmove |-> 1, chess960 |-> TRUE],
      [placement |-> <<"4", "k", "3", "/", "8", "/", "8", "/", "8", "/", "8", "/", "8", "/", "8", "/", "1", "N", "3", "K", "R", "1">>, gating |-> <<"L", "b", "C", "g", "l", "-", "c", "-", "]">>, color |-> "w", castling |-> <<"G">>, ep |-> <<"-">>, rule50 |-> 0, fullmove |-> 1, chess960 |-> TRUE],
      [placement |-> <<"4", "k", "3", "/", "8", "/", "8", "/", "8", "/", "8", "/", "8", "/", "8", "/", "1", "N", "4", "K", "R">>, gating |-> <<"L", "b", "C", "g", "l", "-", "c", "-", "]">>, color |-> "w", castling |-> <<"H">>, ep |-> <<"-">>, rule50 |-> 0, fullmove |-> 1, chess960 |-> TRUE],
      [placement |-> <<"r", "5", "k", "1", "/", "1", "P", "6", "/", "8", "/", "8", "/", "8", "/", "8", "/", "8", "/", "4", "K", "B", "1", "r">>, gating |-> <<"C", "f", "L", "-", "c", "a", "l", "-", "]">>, color |-> "w", castling |-> <<"-">>, ep |-> <<"-">>, rule50 |-> 0, fullmove |-> 1, chess960 |-> FALSE],
      [placement |-> <<"4", "k", "3", "/", "8", "/", "8", "/", "8", "/", "r", "2", "p", "3", "K", "/", "8", "/", "4", "P", "3", "/", "8">>, gating |-> <<"C", "-", "L", "-", "c", "-", "l", "-", "]">>, color |-> "w", castling |-> <<"-">>, ep |-> <<"-">>, rule50 |-> 0, fullmove |-> 1, chess960 |-> FALSE],
      [placement |-> <<"4", "k", "3", "/", "8", "/", "8", "/", "8", "/", "8", "/", "8", "/", "4", "K", "3", "/", "r", "7">>, gating |-> <<"C", "a", "L", "-", "c", "-", "l", "-", "]">>, color |-> "b", castling |-> <<"-">>, ep |-> <<"-">>, rule50 |-> 0, fullmove |-> 1, chess960 |-> FALSE],
      [placement |-> <<"7", "k", "/", "8", "/", "8", "/", "8", "/", "7", "N", "/", "8", "/", "8", "/", "R", "3", "K", "2", "R">>, gating |-> <<"D", "a", "M", "-", "d", "-", "m", "-", "]">>, color |-> "w", castling |-> <<"-">>, ep |-> <<"-">>, rule50 |-> 0, fullmove |-> 1, chess960 |-> FALSE],
      [placement |-> <<"4", "k", "3", "/", "8", "/", "8", "/", "8", "/", "8", "/", "8", "/", "8", "/", "4", "K", "2", "R">>, gating |-> <<"D", "e", "M", "-", "d", "-", "m", "-", "]">>, color |-> "w", castling |-> <<"K">>, ep |-> <<"-">>, rule50 |-> 0, fullmove |-> 1, chess960 |-> FALSE],
      [placement |-> <<"8", "/", "8", "/", "8", "/", "8", "/", "8", "/", "1", "k", "6", "/", "8", "/", "R", "3", "K", "3">>, gating |-> <<"M", "a", "D", "-", "m", "-", "d", "-", "]">>, color |-> "w", castling |-> <<"Q">>, ep |-> <<"-">>, rule50 |-> 0, fullmove |-> 1, chess960 |-> FALSE]
    >>

NoMove == make(NORMAL, SQ_NONE, SQ_NONE, NO_PIECE_TYPE)

\* Position::set(fen)
Init ==
    \E i \in 1..Len(Fens) :
        /\ pos = set(Fens[i])
        /\ hist = <<>>
        /\ last = [op |-> "set", m |-> NoMove, before |-> set(Fens[i]),
                   immediate |-> FALSE, pure |-> TRUE, clean |-> TRUE, prev |-> "set",
                   undone |-> <<>>]

\* The search descends (do_move, do_null_move) to MaxPly and then unwinds.
Descending == last.op \in {"set", "do", "donull"}

\* do_move(m, newSt) for a move m of generate<LEGAL>
DoMove ==
    /\ Len(hist) < MaxPly
    /\ Descending
    /\ LET ml == generate_LEGAL(pos) IN
       \E i \in 1..Len(ml) :
          /\ pos' = do_move(pos, ml[i])
          /\ hist' = Append(hist, [kind |-> "move", m |-> ml[i], before |-> pos,
                                   pure |-> last.clean])
          /\ last' = [op |-> "do", m |-> ml[i], before |-> pos, immediate |-> FALSE,
                      pure |-> last.clean, clean |-> last.clean, prev |-> last.op,
                      undone |-> <<>>]

\* undo_move(m) for the move on top of the stack; a StateInfo field the code
\* reads without having written it holds any gate value.
UndoMove ==
    /\ hist # <<>>
    /\ hist[Len(hist)].kind = "move"
    /\ \E g \in 0..(GATE_NB - 1) :
          /\ pos' = undo_move(pos, hist[Len(hist)].m, g)
          /\ hist' = SubSeq(hist, 1, Len(hist) - 1)
          /\ last' = [op |-> "undo", m |-> hist[Len(hist)].m,
                      before |-> hist[Len(hist)].before,
                      immediate |-> last.op = "do",
                      pure |-> hist[Len(hist)].pure, clean |-> FALSE,
                      prev |-> last.op, undone |-> Append(last.undone, hist[Len(hist)].m)]

\* do_null_move(newSt)
DoNullMove ==
    /\ Len(hist) < MaxPly
    /\ Descending
    /\ checkers(pos) = {}
    /\ pos' = do_null_move(pos)
    /\ hist' = Append(hist, [kind |-> "null", m |-> NoMove, before |-> pos, pure |-> FALSE])
    /\ last' = [op |-> "donull", m |-> NoMove, before |-> pos, immediate |-> FALSE,
                pure |-> FALSE, clean |-> FALSE, prev |-> last.op, undone |-> <<>>]

\* undo_null_move()
UndoNullMove ==
    /\ hist # <<>>
    /\ hist[Len(hist)].kind = "null"
    /\ pos' = undo_null_move(pos)
    /\ hist' = SubSeq(hist, 1, Len(hist) - 1)
    /\ last' = [op |-> "undonull", m |-> NoMove, before |-> hist[Len(hist)].before,
                immediate |-> last.op = "donull", pure |-> FALSE, clean |-> FALSE,
                prev |-> last.op, undone |-> Append(last.undone, NoMove)]

Next == DoMove \/ UndoMove \/ DoNullMove \/ UndoNullMove

Spec == Init /\ [][Next]_vars

-----------------------------------------------------------------------------
\* Properties

\* The fields undo_move has to bring back: the keys and the score of the
\* StateInfo, the board, the bitboards, the counts, the rights, the en-passant
\* square, the fifty-move counter and gateBB.
SameFields(p, q) ==
    /\ St(p).key = St(q).key
    /\ St(p).pawnKey = St(q).pawnKey
    /\ St(p).materialKey = St(q).materialKey
    /\ St(p).psq = St(q).psq
    /\ p.board = q.board
    /\ p.byTypeBB = q.byTypeBB
    /\ p.byColorBB = q.byColorBB
    /\ p.pieceCount = q.pieceCount
    /\ St(p).castlingRights = St(q).castlingRights
    /\ St(p).epSquare = St(q).epSquare
    /\ St(p).rule50 = St(q).rule50
    /\ p.gateBB = q.gateBB

\* C1: in a position reached by a FEN load followed by do_move calls, do_move(m)
\* immediately followed by undo_move(m) leaves key, pawnKey, materialKey, psq,
\* board, byTypeBB, byColorBB, pieceCount, castlingRights, epSquare, rule50 and
\* gateBB as they were, for every legal move m of every type.
C1_UndoRestoresPosition ==
    (last.op = "undo" /\ last.immediate /\ last.pure) => SameFields(pos, last.before)

\* The from-scratch hash of the position, as set_state computes it.
ScratchKey(p) == set_state(p, St(p)).key

\* C2: after set and after every do_move, undo_move and do_null_move the key
\* kept incrementally in st->key is the hash set_state computes from scratch.
C2_KeyIsScratchKey ==
    last.op \in {"set", "do", "undo", "donull"} => St(pos).key = ScratchKey(pos)

\* A move on the board other than castling.
BoardMove(m) == type_of(m) \in {NORMAL, PROMOTION, ENPASSANT}

\* The case of C3: the move m made in position b is a non-castling move whose
\* origin square carries a gate.
LeavesGate(b, m) == BoardMove(m) /\ from_sq(m) \in b.gateBB

\* t is in exactly one of the keys k1 and k2: one XOR with t lies between them.
Toggled(k1, k2, t) == t # {} /\ t \subseteq Xor(k1, k2)

\* C3 (do_move): when a non-castling move leaves a square from of gateBB, then
\* after do_move board[from] holds the piece of the mover's colour whose type is
\* the catalog entry of the gate that was on from, from is out of gateBB,
\* gateBoard[from] is NO_GATE, and the key has the gate-file term of that piece
\* XOR-ed out and its piece-square term on from XOR-ed in.
C3_GateReleasedOnDo ==
    (last.op = "do" /\ LeavesGate(last.before, last.m)) =>
        LET b == last.before
            from == from_sq(last.m)
            gp == make_piece(b.sideToMove, b.gatingPieces[b.gateBoard[from]])
        IN  /\ pos.board[from] = gp
            /\ from \in pieces_cpt(pos, b.sideToMove, type_of_piece(gp))
            /\ from \notin pos.gateBB
            /\ pos.gateBoard[from] = NO_GATE
            /\ Toggled(St(b).key, St(pos).key, Zobrist_psq_gate(gp, file_of(from)))
            /\ Toggled(St(b).key, St(pos).key, Zobrist_psq(gp, from))
            /\ Zobrist_psq(gp, from) \subseteq St(pos).key

\* C3 (undo_move): the undo_move that follows such a move removes the gated
\* piece again and puts from back into gateBB with the same gate index.
C3_GateRestoredOnUndo ==
    (last.op = "undo" /\ last.immediate /\ LeavesGate(last.before, last.m)) =>
        LET b == last.before
            from == from_sq(last.m)
            gp == make_piece(b.sideToMove, b.gatingPieces[b.gateBoard[from]])
        IN  /\ pos.board[from] = b.board[from]
            /\ from \notin pieces_cpt(pos, b.sideToMove, type_of_piece(gp))
            /\ pos.pieceCount[gp] = b.pieceCount[gp]
            /\ from \in pos.gateBB
            /\ pos.gateBoard[from] = b.gateBoard[from]

CapturesOnGate(b, m) ==
    /\ type_of(m) \in {NORMAL, PROMOTION}
    /\ b.board[to_sq(m)] # NO_PIECE
    /\ to_sq(m) \in b.gateBB

\* C4 (do_move): a capture on a square of gateBB removes the captured piece,
\* takes the square out of gateBB, clears gateBoard there, sets gatingSquares
\* of the captured side for that gate to SQ_NONE, and records the piece in
\* st->capturedPiece and the gate index in st->capturedGate.
C4_GateCapturedOnDo ==
    (last.op = "do" /\ CapturesOnGate(last.before, last.m)) =>
        LET b == last.before
            to == to_sq(last.m)
            captured == b.board[to]
            g == b.gateBoard[to]
        IN  /\ color_of(pos.board[to]) = b.sideToMove
            /\ to \notin pieces_c(pos, Opp(b.sideToMove))
            /\ pos.pieceCount[captured] = b.pieceCount[captured] - 1
            /\ to \notin pos.gateBB
            /\ pos.gateBoard[to] = NO_GATE
            /\ pos.gatingSquares[Opp(b.sideToMove)][g] = SQ_NONE
            /\ St(pos).capturedPiece = captured
            /\ St(pos).capturedGate = g

\* C4 (undo_move): the undo_move that follows puts the captured piece back on
\* the square and restores the same gate index on it.
C4_GateRestoredOnUndo ==
    (last.op = "undo" /\ last.immediate /\ CapturesOnGate(last.before, last.m)) =>
        LET b == last.before
            to == to_sq(last.m)
        IN  /\ pos.board[to] = b.board[to]
            /\ to \in pieces_cpt(pos, color_of(b.board[to]), type_of_piece(b.board[to]))
            /\ pos.pieceCount[b.board[to]] = b.pieceCount[b.board[to]]
            /\ to \in pos.gateBB
            /\ pos.gateBoard[to] = b.gateBoard[to]

\* C4: both halves.
C4_GateCaptureRoundTrip == C4_GateCapturedOnDo /\ C4_GateRestoredOnUndo

\* A piece was captured on a gate square and the capture was taken back.
C4_Witness ==
    /\ last.op = "undo" /\ last.immediate /\ CapturesOnGate(last.before, last.m)
    /\ pos.gateBoard[to_sq(last.m)] > NO_GATE
    /\ pos.board[to_sq(last.m)] # NO_PIECE

\* The colour whose first rank s lies on: the side that places gates there.
PlacedBy(s) == IF rank_of(s) = RANK_1 THEN WHITE ELSE BLACK

\* C5: s is in gateBB iff gateBoard[s] is not NO_GATE; for every colour c and
\* gate g that c has placed, gatingSquares[c][g] is either SQ_NONE or a square
\* of gateBB with gateBoard = g on c's first rank; and every gate of gateBB is
\* the gatingSquares entry of the colour that placed it (so a gate is released
\* or captured only on behalf of that colour).
C5_GateBookkeeping ==
    /\ pos.gateBB = {s \in Squares : pos.gateBoard[s] # NO_GATE}
    /\ \A c \in Colors : \A g \in 1..pos.setupCount[c] :
          LET s == pos.gatingSquares[c][g]
          IN  s # SQ_NONE =>
                 /\ s \in pos.gateBB
                 /\ pos.gateBoard[s] = g
                 /\ PlacedBy(s) = c
    /\ \A s \in pos.gateBB :
          /\ pos.gateBoard[s] <= pos.setupCount[PlacedBy(s)]
          /\ pos.gatingSquares[PlacedBy(s)][pos.gateBoard[s]] = s

\* C6: after set and after every do_move(m, st), st->checkersBB is the set of
\* pieces of the opponent of the side to move that attack the king of the side
\* to move under the current occupancy.
C6_CheckersExact ==
    last.op \in {"set", "do"} =>
        St(pos).checkersBB =
            attackers_to(pos, square_king(pos, pos.sideToMove), pieces(pos))
                \cap pieces_c(pos, Opp(pos.sideToMove))

\* A move has just given check.
C6_Witness ==
    /\ last.op = "do"
    /\ BoardMove(last.m)
    /\ St(pos).checkersBB # {}

\* The pseudo-legal moves generate<LEGAL> filters.
PseudoLegalMoves(p) ==
    IF checkers(p) # {} THEN generate_EVASIONS(p) ELSE generate(p, NON_EVASIONS)

\* In the position do_move(m) produces, no piece of the opponent attacks the
\* king of the side that moved.
KingSafeAfter(p, m) ==
    LET q == do_move(p, m)
        us == p.sideToMove
    IN  (attackers_to(q, square_king(q, us), pieces(q)) \cap pieces_c(q, Opp(us))) = {}

Range(s) == {s[i] : i \in DOMAIN s}

\* C7: in every playing-phase position, for every move m of
\* generate<NON_EVASIONS> (not in check) or generate<EVASIONS> (in check),
\* legal(m) is true iff in the position do_move(m) produces, the piece gated
\* onto the origin square included, the mover's king is not attacked.
C7_LegalIffKingSafe ==
    game_phase(pos) = GAMEPHASE_PLAYING =>
        \A m \in Range(PseudoLegalMoves(pos)) : legal(pos, m) <=> KingSafeAfter(pos, m)

\* The multiset of the moves of a list.
BagOfSeq(s) == [m \in Range(s) |-> Cardinality({i \in DOMAIN s : s[i] = m})]

NoDuplicates(s) == \A i, j \in DOMAIN s : s[i] = s[j] => i = j

\* generate<LEGAL> on p holds no move twice, holds exactly the moves of
\* generate<EVASIONS> (in check) or generate<NON_EVASIONS> (not in check) that
\* legal() accepts, and keeps no move that legal() rejects.
LegalIsFiltered(p) ==
    LET ml == generate_LEGAL(p)
        pl == PseudoLegalMoves(p)
    IN  /\ NoDuplicates(ml)
        /\ Range(ml) = {m \in Range(pl) : legal(p, m)}
        /\ \A m \in Range(ml) : legal(p, m)

\* C8: in every position the program reaches, generate<LEGAL> holds no move
\* twice and is exactly the legal() filter of the pseudo-legal list.
C8_LegalIsFilteredPseudoLegal == LegalIsFiltered(pos)

\* The same, restricted to the positions produced by set, do_move and
\* do_null_move (no undo_move has run since).
C8_FilteredWhileDescending == Descending => LegalIsFiltered(pos)

\* A position in which the filter of generate<LEGAL> drops a pseudo-legal move.
C8_DropsMove ==
    /\ Descending
    /\ game_phase(pos) = GAMEPHASE_PLAYING
    /\ 0 < Len(generate_LEGAL(pos))
    /\ Len(generate_LEGAL(pos)) < Len(PseudoLegalMoves(pos))

\* C9: in every position not in check, of any phase, generate<CAPTURES> and
\* generate<QUIETS> together hold exactly the moves of generate<NON_EVASIONS>,
\* each as often, and no move is in both.
C9_CapturesAndQuietsPartition ==
    checkers(pos) = {} =>
        LET cs == generate(pos, CAPTURES)
            qs == generate(pos, QUIETS)
        IN  /\ BagOfSeq(cs \o qs) = BagOfSeq(generate(pos, NON_EVASIONS))
            /\ Range(cs) \cap Range(qs) = {}

\* A position with captures, quiet moves, and promotions of both kinds.
C9_Witness ==
    /\ checkers(pos) = {}
    /\ \E m \in Range(generate(pos, CAPTURES)) : type_of(m) = PROMOTION
    /\ \E m \in Range(generate(pos, QUIETS)) : type_of(m) = PROMOTION
    /\ \E m \in Range(generate(pos, CAPTURES)) : type_of(m) = NORMAL
    /\ \E m \in Range(generate(pos, QUIETS)) : type_of(m) = NORMAL

\* The types in the gating catalog.
Catalog(p) == {p.gatingPieces[g] : g \in 1..p.gateCount}

\* The moves m1, m2 select the same type, the first from an empty catalog b.
SameTypeTwice(b, m1, m2) ==
    /\ b.gateCount = 0
    /\ type_of(m1) = SET_GATING_TYPE
    /\ type_of(m2) = SET_GATING_TYPE
    /\ gating_type(m1) = gating_type(m2)

\* Two set_gating_type moves of one type have just been made from an empty catalog.
SelectedTwice ==
    /\ last.op = "do"
    /\ Len(hist) = 2
    /\ hist[1].kind = "move" /\ hist[2].kind = "move"
    /\ SameTypeTwice(hist[1].before, hist[1].m, hist[2].m)

\* Both of these moves have been taken back.
SelectedTwiceUndone ==
    /\ last.op = "undo"
    /\ hist = <<>>
    /\ Len(last.undone) = 2
    /\ SameTypeTwice(last.before, last.undone[2], last.undone[1])

EmptyCatalog(p) ==
    /\ p.gateCount = 0
    /\ \A g \in DOMAIN p.gatingPieces : p.gatingPieces[g] = NO_PIECE_TYPE

\* C10 as stated: after the two selections of X the catalog holds X, cannon
\* and leopard; undoing both restores the empty catalog.
C10_CatalogKeepsSelectedType ==
    /\ SelectedTwice =>
          {gating_type(hist[2].m), CANNON, LEOPARD} \subseteq Catalog(pos)
    /\ SelectedTwiceUndone => EmptyCatalog(pos)

\* C10, amended: after the two selections of X the catalog is exactly
\* (cannon, leopard), with gateCount = 2 and X kept in st->removedGatingType;
\* undoing the second move leaves the catalog (X), undoing both restores the
\* empty catalog.
C10_FallbackPairReplacesType ==
    /\ SelectedTwice =>
          /\ pos.gateCount = 2
          /\ pos.gatingPieces[1] = CANNON
          /\ pos.gatingPieces[2] = LEOPARD
          /\ St(pos).removedGatingType = gating_type(hist[2].m)
    /\ (last.op = "undo" /\ last.immediate /\ Len(hist) = 1
        /\ SameTypeTwice(hist[1].before, hist[1].m, last.m)) =>
          /\ pos.gateCount = 1
          /\ pos.gatingPieces[1] = gating_type(last.m)
          /\ pos.gatingPieces[2] = NO_PIECE_TYPE
    /\ SelectedTwiceUndone => EmptyCatalog(pos)

\* A type other than cannon and leopard was selected twice and both moves
\* were taken back.
C10_Witness ==
    /\ SelectedTwiceUndone
    /\ gating_type(last.undone[1]) \notin {CANNON, LEOPARD}

\* C11: byTypeBB[ALL_PIECES] is the union of the bitboards of the piece types
\* and the union of the two colour bitboards; the bitboards of two types are
\* disjoint, and so are those of the two colours.
C11_BitboardsPartition ==
    /\ pos.byTypeBB[ALL_PIECES] = UNION {pos.byTypeBB[t] : t \in PieceTypes}
    /\ pos.byTypeBB[ALL_PIECES] = pos.byColorBB[WHITE] \cup pos.byColorBB[BLACK]
    /\ \A t1, t2 \in PieceTypes : t1 # t2 => pos.byTypeBB[t1] \cap pos.byTypeBB[t2] = {}
    /\ pos.byColorBB[WHITE] \cap pos.byColorBB[BLACK] = {}

\* The entries pieceList[pc][0..pieceCount[pc]-1].
ListedSquares(p, pc) == {Get(p.pieceList[pc], i, SQ_NONE) : i \in 0..(p.pieceCount[pc] - 1)}

\* C12: for every piece pc, pieceCount[pc] is the number of squares with
\* board value pc and the size of pieces(colour, type); the first
\* pieceCount[pc] entries of pieceList[pc] are distinct squares with board
\* value pc, and index gives each its offset.
C12_PieceListsConsistent ==
    \A c \in Colors : \A t \in PieceTypes :
        LET pc == make_piece(c, t)
            n == pos.pieceCount[pc]
        IN  /\ n = Cardinality({s \in Squares : pos.board[s] = pc})
            /\ n = Cardinality(pieces_cpt(pos, c, t))
            /\ Cardinality(ListedSquares(pos, pc)) = n
            /\ \A i \in 0..(n - 1) :
                  LET s == Get(pos.pieceList[pc], i, SQ_NONE)
                  IN  /\ s \in Squares
                      /\ pos.board[s] = pc
                      /\ pos.index[s] = i

\* The fields of the Position apart from pieceList and its inverse index; the
\* piece lists are compared as sets of squares.
SamePosition(p, q) ==
    /\ p.board = q.board
    /\ p.gateBoard = q.gateBoard
    /\ p.gatingPieces = q.gatingPieces
    /\ p.gatingSquares = q.gatingSquares
    /\ p.byTypeBB = q.byTypeBB
    /\ p.byColorBB = q.byColorBB
    /\ p.gateBB = q.gateBB
    /\ p.pieceCount = q.pieceCount
    /\ p.gateCount = q.gateCount
    /\ p.setupCount = q.setupCount
    /\ p.castlingRightsMask = q.castlingRightsMask
    /\ p.castlingRookSquare = q.castlingRookSquare
    /\ p.castlingPath = q.castlingPath
    /\ p.gamePly = q.gamePly
    /\ p.sideToMove = q.sideToMove
    /\ p.chess960 = q.chess960
    /\ p.st = q.st
    /\ \A pc \in DOMAIN p.pieceList : ListedSquares(p, pc) = ListedSquares(q, pc)

\* C13: do_move(m) immediately followed by undo_move(m) restores every field
\* of the Position, the piece lists up to their order; this includes gateBoard,
\* gatingSquares, gatingPieces, gateCount and setupCount, for moves of every
\* type.
C13_UndoRestoresEveryField ==
    (last.op = "undo" /\ last.immediate /\ last.pure) => SamePosition(pos, last.before)

\* The first rank of colour c.
HomeRank(c) == {s \in Squares : relative_rank(c, rank_of(s)) = RANK_1}

\* The squares the king/rook exclusion removes for the side to move: its
\* rooks' squares when its king stands on a gate, otherwise its king's square
\* when one of its rooks stands on a gate.
ExcludedHomes(p) ==
    LET us == p.sideToMove
        onGate(pt) == \E s \in p.gateBB : p.board[s] = make_piece(us, pt)
    IN  IF onGate(KING) THEN {s \in Squares : p.board[s] = make_piece(us, ROOK)}
        ELSE IF onGate(ROOK) THEN {s \in Squares : p.board[s] = make_piece(us, KING)}
        ELSE {}

\* The moves of generate<PLACEMENTS> are put_gating_piece moves, no destination
\* twice, each with the type of catalog entry setupCount[us] + 1.
PlacementsWellFormed(p) ==
    LET ml == generate_PLACEMENTS(p)
    IN  /\ NoDuplicates(ml)
        /\ \A i \in DOMAIN ml :
              /\ type_of(ml[i]) = PUT_GATING_PIECE
              /\ gating_type(ml[i]) = p.gatingPieces[p.setupCount[p.sideToMove] + 1]

PlacementTargets(p) == {to_sq(m) : m \in Range(generate_PLACEMENTS(p))}

\* C14 as stated: in the placement phase the destinations of
\* generate<PLACEMENTS> are the EMPTY squares of the mover's first rank that
\* carry no gate, minus the king/rook exclusion, each once, with the type of
\* catalog entry setupCount[us] + 1.
C14_PlacementsOnEmptySquares ==
    game_phase(pos) = GAMEPHASE_PLACING =>
        /\ PlacementsWellFormed(pos)
        /\ PlacementTargets(pos) =
              {s \in HomeRank(pos.sideToMove) : pos.board[s] = NO_PIECE /\ s \notin pos.gateBB}
                  \ ExcludedHomes(pos)

\* C14, amended: in the placement phase the destinations of
\* generate<PLACEMENTS> are all squares of the mover's first rank, occupied or
\* not, that carry no gate, minus the king/rook exclusion, each once, with the
\* type of catalog entry setupCount[us] + 1.
C14_PlacementsOnUngatedHomes ==
    game_phase(pos) = GAMEPHASE_PLACING =>
        /\ PlacementsWellFormed(pos)
        /\ PlacementTargets(pos) =
              {s \in HomeRank(pos.sideToMove) : s \notin pos.gateBB} \ ExcludedHomes(pos)

\* A placement position, reached by a placement move, in which the exclusion
\* removes a square and the generator offers an occupied one.
C14_Witness ==
    /\ last.op = "do"
    /\ type_of(last.m) = PUT_GATING_PIECE
    /\ game_phase(pos) = GAMEPHASE_PLACING
    /\ ExcludedHomes(pos) # {}
    /\ \E s \in PlacementTargets(pos) : pos.board[s] # NO_PIECE

(***************************************************************************)
(* The placement phase played out from a position with no gate placed,     *)
(* followed by castling.                                                   *)
(***************************************************************************)
\* Plies played from the loaded position: four placements and one castling.
MaxPlacePly == 5

\* r3k2r/8/8/8/8/8/8/R3K2R[C?L?c?l?] w KQkq - 0 1
PlacingFen ==
    [placement |-> <<"r", "3", "k", "2", "r", "/", "8", "/", "8", "/", "8", "/", "8", "/", "8", "/", "8", "/", "R", "3", "K", "2", "R">>, gating |-> <<"C", "?", "L", "?", "c", "?", "l", "?", "]">>, color |-> "w", castling |-> <<"K", "Q", "k", "q">>, ep |-> <<"-">>, rule50 |-> 0, fullmove |-> 1, chess960 |-> FALSE]

PlacingInit ==
    /\ pos = set(PlacingFen)
    /\ hist = <<>>
    /\ last = [op |-> "set", m |-> NoMove, before |-> set(PlacingFen),
               immediate |-> FALSE, pure |-> TRUE, clean |-> TRUE, prev |-> "set",
               undone |-> <<>>]

\* do_move(m, newSt) for a move m of generate<PLACEMENTS>
PlaceGate ==
    /\ game_phase(pos) = GAMEPHASE_PLACING
    /\ LET ml == generate_PLACEMENTS(pos) IN
       \E i \in 1..Len(ml) :
          /\ pos' = do_move(pos, ml[i])
          /\ hist' = Append(hist, [kind |-> "move", m |-> ml[i], before |-> pos,
                                   pure |-> TRUE])
          /\ last' = [op |-> "do", m |-> ml[i], before |-> pos, immediate |-> FALSE,
                      pure |-> TRUE, clean |-> TRUE, prev |-> last.op, undone |-> <<>>]

\* The castling moves of generate<LEGAL> for a side that is not in check: the
\* two generate_castling calls of generate_all, kept when legal() accepts them.
LegalCastlings(p) ==
    LET us == p.sideToMove
    IN  SelectSeq(generate_castling(p, MakeCastling(us, KING_SIDE), FALSE, p.chess960, us)
                    \o generate_castling(p, MakeCastling(us, QUEEN_SIDE), FALSE, p.chess960, us),
                  LAMBDA m : legal(p, m))

\* do_move(m, newSt) for a castling move m of generate<LEGAL>
Castle ==
    /\ game_phase(pos) = GAMEPHASE_PLAYING
    /\ Len(hist) < MaxPlacePly
    /\ checkers(pos) = {}
    /\ LET ml == LegalCastlings(pos) IN
       \E i \in 1..Len(ml) :
          /\ pos' = do_move(pos, ml[i])
          /\ hist' = Append(hist, [kind |-> "move", m |-> ml[i], before |-> pos,
                                   pure |-> TRUE])
          /\ last' = [op |-> "do", m |-> ml[i], before |-> pos, immediate |-> FALSE,
                      pure |-> TRUE, clean |-> TRUE, prev |-> last.op, undone |-> <<>>]

PlacingNext == PlaceGate \/ Castle

SpecPlacing == PlacingInit /\ [][PlacingNext]_vars

\* Colour c has a gate under its king and a gate under one of its rooks.
KingAndRookGated(p, c) ==
    /\ \E s \in p.gateBB : p.board[s] = make_piece(c, KING)
    /\ \E s \in p.gateBB : p.board[s] = make_piece(c, ROOK)

CustomTypes == {CUSTOM_PIECES + n - 1 : n \in DOMAIN customPieces}

\* The body of the loop of generate_custom_moves<false> for one square from of
\* the piece list: the moves to attacks_from_betza(us, pt, from) & target.
CustomMovesFrom(p, us, pt, from, target) ==
    MovesOf(attacks_from_betza(p, us, pt, from) \cap target, LAMBDA to : make_move(from, to))

\* The target generate<Type> hands to generate_all.
TargetOf(p, Type) ==
    IF Type = CAPTURES THEN pieces_c(p, Opp(p.sideToMove))
    ELSE IF Type = QUIETS THEN Squares \ pieces(p)
    ELSE Squares \ pieces_c(p, p.sideToMove)

BetzaInit == Init /\ game_phase(pos) = GAMEPHASE_PLAYING

\* generate_custom_moves for a custom piece of the side to move that stands on
\* the square from, in one of the modes CAPTURES, QUIETS, NON_EVASIONS.
GenerateCustom ==
    /\ last.op = "set"
    /\ \E pt \in CustomTypes, from \in pieces_c(pos, pos.sideToMove),
          Type \in {CAPTURES, QUIETS, NON_EVASIONS} :
          last' = [op |-> "custom", pt |-> pt, from |-> from, Type |-> Type,
                   moves |-> CustomMovesFrom(pos, pos.sideToMove, pt, from,
                                             TargetOf(pos, Type))]
    /\ UNCHANGED <<pos, hist>>

BetzaNext == GenerateCustom

SpecBetza == BetzaInit /\ [][BetzaNext]_vars

\* The k-th square from s in direction o = (file step, rank step), SQ_NONE when
\* it lies off the board.
RayStep(s, o, k) ==
    LET f == file_of(s) + k * o[1]
        r == rank_of(s) + k * o[2]
    IN  IF f \in 0..7 /\ r \in 0..7 THEN make_square(f, r) ELSE SQ_NONE

\* The squares a rider reaches from s in direction o on the occupancy occ: up
\* to and including the first occupied square.
RiderReach(s, o, occ) ==
    {RayStep(s, o, k) : k \in {j \in 1..7 : /\ RayStep(s, o, j) # SQ_NONE
                                            /\ \A i \in 1..(j - 1) : RayStep(s, o, i) \notin occ}}

\* What the patterns of pt reach from s on the occupancy occ.
PatternReach(pt, s, occ) ==
    UNION {UNION {IF pat.isRider THEN RiderReach(s, o, occ) ELSE {RayStep(s, o, 1)} \ {SQ_NONE}
                  : o \in pat.offsets}
           : pat \in {q \in customPieces[pt - CUSTOM_PIECES + 1] : ~q.captureOnly}}

HasRider(pt) == \E pat \in customPieces[pt - CUSTOM_PIECES + 1] : pat.isRider

C16_NoWrap ==
    (last.op = "custom" /\ HasRider(last.pt)) =>
        {to_sq(m) : m \in Range(last.moves)} \subseteq PatternReach(last.pt, last.from, {})

(***************************************************************************)
(* perft from the initial position of orthodox chess.                      *)
(***************************************************************************)
\* The depth of the perft walk.
MaxPerftPly == 2

\* rnbqkbnr/pppppppp/8/8/8/8/PPPPPPPP/RNBQKBNR w KQkq - 0 1, without a gating
\* list and with the list [C-L-c-l-] of a catalog whose gates are all released.
PerftFens ==
    <<
      [placement |-> <<"r", "n", "b", "q", "k", "b", "n", "r", "/", "p", "p", "p", "p", "p", "p", "p", "p", "/", "8", "/", "8", "/", "8", "/", "8", "/", "P", "P", "P", "P", "P", "P", "P", "P", "/", "R", "N", "B", "Q", "K", "B", "N", "R">>, gating |-> <<>>, color |-> "w", castling |-> <<"K", "Q", "k", "q">>, ep |-> <<"-">>, rule50 |-> 0, fullmove |-> 1, chess960 |-> FALSE],
      [placement |-> <<"r", "n", "b", "q", "k", "b", "n", "r", "/", "p", "p", "p", "p", "p", "p", "p", "p", "/", "8", "/", "8", "/", "8", "/", "8", "/", "P", "P", "P", "P", "P", "P", "P", "P", "/", "R", "N", "B", "Q", "K", "B", "N", "R">>, gating |-> <<"C", "-", "L", "-", "c", "-", "l", "-", "]">>, color |-> "w", castling |-> <<"K", "Q", "k", "q">>, ep |-> <<"-">>, rule50 |-> 0, fullmove |-> 1, chess960 |-> FALSE]
    >>

PerftInit ==
    \E i \in 1..Len(PerftFens) :
        /\ pos = set(PerftFens[i])
        /\ hist = <<>>
        /\ last = [op |-> "set", m |-> NoMove, before |-> set(PerftFens[i]),
                   immediate |-> FALSE, pure |-> TRUE, clean |-> TRUE, prev |-> "set",
                   undone |-> <<>>]

\* perft: do_move(m, st) for each move m of generate<LEGAL>, down to the depth.
PerftMove ==
    /\ Len(hist) < MaxPerftPly
    /\ LET ml == generate_LEGAL(pos) IN
       \E i \in 1..Len(ml) :
          /\ pos' = do_move(pos, ml[i])
          /\ hist' = Append(hist, [kind |-> "move", m |-> ml[i]])
          /\ last' = [op |-> "do", m |-> ml[i], before |-> last.before,
                      immediate |-> FALSE, pure |-> TRUE, clean |-> TRUE, prev |-> last.op,
                      undone |-> <<>>]

PerftNext == PerftMove

SpecPerft == PerftInit /\ [][PerftNext]_vars

\* perft(1) and perft(2) of the position p.
Perft1(p) == LET ml == generate_LEGAL(p) IN Len(ml)
Perft2(p) ==
    LET ml == generate_LEGAL(p)
    IN  SumSeq([i \in 1..Len(ml) |-> Perft1(do_move(p, ml[i]))])

\* The position was loaded from a FEN without a gating list.
NoCatalog(p) == p.gateCount = 0

\* C17 as stated: from the initial position loaded without a gating list
\* generate<LEGAL> yields 20 moves, and two plies lead to 400 positions.
C17_Perft20And400 ==
    (hist = <<>> /\ NoCatalog(pos)) => (Perft1(pos) = 20 /\ Perft2(pos) = 400)

\* C17, amended: loaded without a gating list the initial position is in the
\* selection phase, generate<LEGAL> yields the 10 set_gating_type moves and two
\* plies lead to 100 positions; loaded with a catalog whose gates are all
\* released it is in the playing phase and the counts are 20 and 400.
C17_PerftByPhase ==
    hist = <<>> =>
        IF NoCatalog(pos)
        THEN /\ game_phase(pos) = GAMEPHASE_SELECTION
             /\ \A m \in Range(generate_LEGAL(pos)) : type_of(m) = SET_GATING_TYPE
             /\ Perft1(pos) = 10
             /\ Perft2(pos) = 100
        ELSE /\ game_phase(pos) = GAMEPHASE_PLAYING
             /\ Perft1(pos) = 20
             /\ Perft2(pos) = 400

\* Two plies played from the position loaded without a gating list.
C17_Witness ==
    /\ Len(hist) = 2
    /\ NoCatalog(last.before)
    /\ type_of(hist[1].m) = SET_GATING_TYPE

(***************************************************************************)
(* Draw detection (position.cpp): is_draw and has_game_cycle read the      *)
(* chain of StateInfo objects behind st.                                   *)
(***************************************************************************)
\* The StateInfo i plies behind the current one (st->previous taken i times).
Ancestor(p, i) == p.st[Len(p.st) - i]

\* The loop of is_draw from distance i on, cnt repetitions met so far.
RECURSIVE DrawLoop(_, _, _, _, _)
DrawLoop(p, ply, i, end, cnt) ==
    IF i > end THEN FALSE
    ELSE IF Ancestor(p, i).key = St(p).key
    THEN (IF cnt + 1 + (IF ply > i THEN 1 ELSE 0) = 2 THEN TRUE
          ELSE DrawLoop(p, ply, i + 2, end, cnt + 1))
    ELSE DrawLoop(p, ply, i + 2, end, cnt)

\* The pieces Position::init enters into the cuckoo tables.
CuckooPieces == {make_piece(c, pt) : c \in Colors, pt \in {KNIGHT, BISHOP, ROOK, QUEEN, KING}}

\* The key Position::init stores for the move of pc between s1 and s2.
CuckooKey(pc, s1, s2) == Xor(Xor(Zobrist_psq(pc, s1), Zobrist_psq(pc, s2)), Zobrist_side)

\* The lookup cuckoo[H1(k)] == k || cuckoo[H2(k)] == k: the entries, as
\* <<piece, s1, s2>> with s1 < s2, whose key is k.  Every one of the 3668
\* reversible moves has its slot, and two keys are equal only when they are the
\* XOR of the same terms.
CuckooFind(k) ==
    LET terms == {t \in k : t[1] = "psq"}
    IN  {e \in {<<a[2], a[3], b[3]>> : a \in terms, b \in terms} :
            /\ e[1] \in CuckooPieces
            /\ e[2] < e[3]
            /\ e[3] \in PseudoAttacks[WHITE][type_of_piece(e[1])][e[2]]
            /\ CuckooKey(e[1], e[2], e[3]) = k}

\* The inner loop of has_game_cycle: the key of the ancestor at distance i
\* occurs again at a distance k = i + 2, i + 4, ... <= end.
OccursAgain(p, i, end) ==
    \E k \in (i + 2)..end : (k - i) % 2 = 0 /\ Ancestor(p, k).key = Ancestor(p, i).key

\* The test has_game_cycle makes on the ancestor at distance i.
CycleAt(p, ply, i, end) ==
    LET found == CuckooFind(Xor(St(p).key, Ancestor(p, i).key))
    IN  /\ found # {}
        /\ \A e \in found : (between_bb(e[2], e[3]) \cap pieces(p)) = {}
        /\ (ply > i \/ OccursAgain(p, i, end))

\* The loop of has_game_cycle from distance i on.
RECURSIVE CycleLoop(_, _, _, _)
CycleLoop(p, ply, i, end) ==
    IF i > end THEN FALSE
    ELSE IF CycleAt(p, ply, i, end) THEN TRUE
    ELSE CycleLoop(p, ply, i + 2, end)

\* has_game_cycle without the test of the squares between the endpoints.
has_game_cycle_NoBetween(p, ply) ==
    LET end == Min(St(p).rule50, St(p).pliesFromNull)
    IN  \E i \in 3..end :
           /\ i % 2 = 1
           /\ CuckooFind(Xor(St(p).key, Ancestor(p, i).key)) # {}
           /\ (ply > i \/ OccursAgain(p, i, end))

\* Position::has_game_cycle(ply)
has_game_cycle(p, ply) ==
    LET end == Min(St(p).rule50, St(p).pliesFromNull)
    IN  IF end < 3 THEN FALSE ELSE CycleLoop(p, ply, 3, end)

\* is_draw with the repetition rule of the root only: two earlier occurrences
\* are asked for at every ply.
is_draw_TwiceOnly(p, ply) ==
    LET end == Min(St(p).rule50, St(p).pliesFromNull)
    IN  IF St(p).rule50 > 99 /\ (checkers(p) = {} \/ generate_LEGAL(p) # <<>>) THEN TRUE
        ELSE IF end < 4 THEN FALSE
        ELSE DrawLoop(p, 0, 4, end, 0)

\* Position::is_draw(ply)
is_draw(p, ply) ==
    LET end == Min(St(p).rule50, St(p).pliesFromNull)
    IN  IF St(p).rule50 > 99 /\ (checkers(p) = {} \/ generate_LEGAL(p) # <<>>) THEN TRUE
        ELSE IF end < 4 THEN FALSE
        ELSE DrawLoop(p, ply, 4, end, 0)

\* Plies played from the loaded position: two full cycles of four plies.
MaxDrawPly == 8

\* 4k3/8/8/8/8/8/8/4K3[C-L-c-l-] w - - 0 1, the same with the fifty-move
\* counter at 97, 7k/8/6K1/8/8/8/8/R7[C-L-c-l-] w - - 99 1 and
\* 4k3/8/8/8/N7/8/8/R3K3[C-L-c-l-] w - - 0 1.
DrawFens ==
    <<
      [placement |-> <<"4", "k", "3", "/", "8", "/", "8", "/", "8", "/", "8", "/", "8", "/", "8", "/", "4", "K", "3">>, gating |-> <<"C", "-", "L", "-", "c", "-", "l", "-", "]">>, color |-> "w", castling |-> <<"-">>, ep |-> <<"-">>, rule50 |-> 0, fullmove |-> 1, chess960 |-> FALSE],
      [placement |-> <<"4", "k", "3", "/", "8", "/", "8", "/", "8", "/", "8", "/", "8", "/", "8", "/", "4", "K", "3">>, gating |-> <<"C", "-", "L", "-", "c", "-", "l", "-", "]">>, color |-> "w", castling |-> <<"-">>, ep |-> <<"-">>, rule50 |-> 97, fullmove |-> 1, chess960 |-> FALSE],
      [placement |-> <<"7", "k", "/", "8", "/", "6", "K", "1", "/", "8", "/", "8", "/", "8", "/", "8", "/", "R", "7">>, gating |-> <<"C", "-", "L", "-", "c", "-", "l", "-", "]">>, color |-> "w", castling |-> <<"-">>, ep |-> <<"-">>, rule50 |-> 99, fullmove |-> 1, chess960 |-> FALSE],
      [placement |-> <<"4", "k", "3", "/", "8", "/", "8", "/", "8", "/", "N", "7", "/", "8", "/", "8", "/", "R", "3", "K", "3">>, gating |-> <<"C", "-", "L", "-", "c", "-", "l", "-", "]">>, color |-> "w", castling |-> <<"-">>, ep |-> <<"-">>, rule50 |-> 0, fullmove |-> 1, chess960 |-> FALSE]
    >>

\* The caller moves between these squares only: e1, d1 and e8, d8 for the
\* kings, a1, b1, b7, a7 and a8 for the rook; and it makes one null move at most.
DrawSquares == {4, 3, 60, 59, 0, 1, 49, 48, 56}

DrawInit ==
    \E i \in 1..Len(DrawFens) :
        /\ pos = set(DrawFens[i])
        /\ hist = <<>>
        /\ last = [op |-> "set", m |-> NoMove]

\* do_move(m, newSt) for a move m of generate<LEGAL> between the squares above
DrawMove ==
    /\ Len(hist) < MaxDrawPly
    /\ LET ml == generate_LEGAL(pos) IN
       \E i \in 1..Len(ml) :
          /\ {from_sq(ml[i]), to_sq(ml[i])} \subseteq DrawSquares
          /\ pos' = do_move(pos, ml[i])
          /\ hist' = Append(hist, [kind |-> "move", m |-> ml[i]])
          /\ last' = [op |-> "do", m |-> ml[i]]

\* do_null_move(newSt)
DrawNullMove ==
    /\ Len(hist) < MaxDrawPly
    /\ \A i \in DOMAIN hist : hist[i].kind # "null"
    /\ checkers(pos) = {}
    /\ pos' = do_null_move(pos)
    /\ hist' = Append(hist, [kind |-> "null", m |-> NoMove])
    /\ last' = [op |-> "donull", m |-> NoMove]

DrawNext == DrawMove \/ DrawNullMove

SpecDraw == DrawInit /\ [][DrawNext]_vars

\* The plies a search may pass to is_draw and has_game_cycle.
SearchPlies == 0..(MaxDrawPly + 1)

\* min(st->rule50, st->pliesFromNull)
CycleEnd(p) == Min(St(p).rule50, St(p).pliesFromNull)

\* The even distances from 4 to the bound at which the current key occurs.
Repetitions(p) ==
    {i \in 4..CycleEnd(p) : i % 2 = 0 /\ Ancestor(p, i).key = St(p).key}

FiftyMoveDraw(p) ==
    St(p).rule50 > 99 /\ (checkers(p) = {} \/ Len(generate_LEGAL(p)) > 0)

\* C18: is_draw(ply) is true iff the fifty-move counter exceeds 99 and the side
\* to move is not in check or has a legal move, or the current key occurs
\* among the ancestors at even distances 4..min(rule50, pliesFromNull) at a
\* distance below ply or at two distances; it is false whenever rule50 <= 99
\* and that bound is below 4.
C18_IsDrawCharacterised ==
    \A ply \in SearchPlies :
        /\ is_draw(pos, ply) <=>
              \/ FiftyMoveDraw(pos)
              \/ \E i \in Repetitions(pos) : i < ply
              \/ Cardinality(Repetitions(pos)) >= 2
        /\ (St(pos).rule50 <= 99 /\ CycleEnd(pos) < 4) => ~is_draw(pos, ply)

\* The chain behind st is as long as the loops of is_draw and has_game_cycle
\* walk it.
ChainLongEnough == CycleEnd(pos) < Len(pos.st)

\* The current key has occurred twice, and the fifty-move rule does not apply.
C18_Witness ==
    /\ Cardinality(Repetitions(pos)) >= 2
    /\ ~FiftyMoveDraw(pos)
    /\ is_draw(pos, 0)

\* The keys of the current position and of its ancestor at distance i differ
\* by a reversible move (of a knight, bishop, rook, queen or king between two
\* squares one attacks from the other on an empty board) and the side to move,
\* and no piece stands between the two squares.
OneMoveApart(p, i) ==
    LET d == Xor(St(p).key, Ancestor(p, i).key)
    IN  \E pc \in CuckooPieces : \E s1 \in Squares :
           /\ Zobrist_psq(pc, s1) \subseteq d
           /\ \E s2 \in PseudoAttacks[WHITE][type_of_piece(pc)][s1] :
                 /\ d = CuckooKey(pc, s1, s2)
                 /\ (between_bb(s1, s2) \cap pieces(p)) = {}

\* The key of the ancestor at distance i occurs again at a greater distance of
\* the same parity within the bound.
SeenBefore(p, i) ==
    \E k \in (i + 1)..CycleEnd(p) :
        (k - i) % 2 = 0 /\ Ancestor(p, k).key = Ancestor(p, i).key

\* has_game_cycle(ply) is true iff the test succeeds at one of the distances ds.
CycleIffAt(ds) ==
    \A ply \in SearchPlies :
        has_game_cycle(pos, ply) <=> \E i \in ds : ply > i \/ SeenBefore(pos, i)

\* C19 as stated: has_game_cycle(ply) is true iff, for an ancestor at an even
\* distance i <= min(rule50, pliesFromNull), the XOR of the two keys is a
\* cuckoo entry whose move has no piece between its endpoints, and ply > i or
\* the ancestor's key occurs once more further back.
C19_CycleAtEvenDistance ==
    CycleIffAt({i \in 1..CycleEnd(pos) : i % 2 = 0 /\ OneMoveApart(pos, i)})

\* C19, amended: the same with the ancestors at the odd distances i,
\* 3 <= i <= min(rule50, pliesFromNull).
C19_CycleAtOddDistance ==
    CycleIffAt({i \in 3..CycleEnd(pos) : i % 2 = 1 /\ OneMoveApart(pos, i)})

\* A cycle found at the root through a second occurrence of the ancestor's key.
C19_Witness ==
    /\ has_game_cycle(pos, 0)
    /\ \E i \in 3..CycleEnd(pos) : OneMoveApart(pos, i) /\ SeenBefore(pos, i)


-----------------------------------------------------------------------------
(***************************************************************************)
(* Position::fen() (position.cpp), and the round trip through set().       *)
(***************************************************************************)
\* PieceToChar[pc]
PieceToChar(pc) ==
    IF color_of(pc) = WHITE THEN PieceToCharWhite[type_of_piece(pc)]
    ELSE PieceToCharBlack[type_of_piece(pc)]

\* The first and the last file.
FILE_A == file_of(SQ_A1)
FILE_H == file_of(SQ_H1)

\* The inner loops of fen() on rank r from file f on, emptyCnt empty squares
\* counted so far.
RECURSIVE FenRank(_, _, _, _)
FenRank(p, r, f, emptyCnt) ==
    LET cnt == IF emptyCnt > 0 THEN <<DigitChars[emptyCnt + 1]>> ELSE <<>>
    IN  IF f > FILE_H THEN cnt
        ELSE IF empty(p, make_square(f, r)) THEN FenRank(p, r, f + 1, emptyCnt + 1)
        ELSE cnt \o <<PieceToChar(piece_on(p, make_square(f, r)))>> \o FenRank(p, r, f + 1, 0)

\* for (Rank r = RANK_8; r >= RANK_1; --r)
RECURSIVE FenPlacement(_, _)
FenPlacement(p, r) ==
    IF r = RANK_1 THEN FenRank(p, r, FILE_A, 0)
    ELSE FenRank(p, r, FILE_A, 0) \o <<"/">> \o FenPlacement(p, r - 1)

\* The two characters fen() writes for gate i of colour c.
FenGate(p, c, i) ==
    <<PieceToChar(make_piece(c, gating_piece(p, i))),
      IF p.setupCount[c] < i THEN "?"
      ELSE IF gating_square(p, c, i) # SQ_NONE
      THEN FileCharsLower[file_of(gating_square(p, c, i)) + 1]
      ELSE "-">>

\* The loop over the gates of colour c from gate i on.
RECURSIVE FenGatesOf(_, _, _)
FenGatesOf(p, c, i) ==
    IF i > p.gateCount THEN <<>> ELSE FenGate(p, c, i) \o FenGatesOf(p, c, i + 1)

\* The gating list, written when gateCount > NO_GATE.
FenGating(p) ==
    IF p.gateCount > NO_GATE
    THEN FenGatesOf(p, WHITE, GATE_1) \o FenGatesOf(p, BLACK, GATE_1) \o <<"]">>
    ELSE <<>>

\* The letter of the castling right cr.
FenCastlingChar(p, cr, ch) ==
    IF can_castle(p, {cr}) = {} THEN <<>>
    ELSE IF ~p.chess960 THEN <<ch>>
    ELSE IF cr \in {WHITE_OO, WHITE_OOO}
    THEN <<FileCharsUpper[file_of(p.castlingRookSquare[cr]) + 1]>>
    ELSE <<FileCharsLower[file_of(p.castlingRookSquare[cr]) + 1]>>

FenCastling(p) ==
    LET s == FenCastlingChar(p, WHITE_OO, "K") \o FenCastlingChar(p, WHITE_OOO, "Q")
               \o FenCastlingChar(p, BLACK_OO, "k") \o FenCastlingChar(p, BLACK_OOO, "q")
    IN  IF can_castle(p, ANY_CASTLING) = {} THEN s \o <<"-">> ELSE s

\* UCI::square(ep_square()), or '-'
FenEnPassant(p) ==
    IF ep_square(p) = SQ_NONE THEN <<"-">>
    ELSE <<FileCharsLower[file_of(ep_square(p)) + 1], RankChars[rank_of(ep_square(p)) + 1]>>

\* The quotient of C++, rounded towards zero.
CDiv(a, b) == IF a >= 0 THEN a \div b ELSE -((-a) \div b)

\* Position::fen(); the Chess960 flag is the one the caller hands back to set().
fen(p) ==
    [placement |-> FenPlacement(p, RANK_8),
     gating |-> FenGating(p),
     color |-> IF p.sideToMove = WHITE THEN "w" ELSE "b",
     castling |-> FenCastling(p),
     ep |-> FenEnPassant(p),
     rule50 |-> St(p).rule50,
     fullmove |-> 1 + CDiv(p.gamePly - (IF p.sideToMove = BLACK THEN 1 ELSE 0), 2),
     chess960 |-> p.chess960]

\* The position a caller gets from the string fen() wrote.
Reloaded(p) == set(fen(p))

\* The fields C20 compares.
SameAfterReload(p, q) ==
    /\ p.board = q.board
    /\ p.gatingPieces = q.gatingPieces
    /\ p.gateCount = q.gateCount
    /\ p.gateBoard = q.gateBoard
    /\ p.gateBB = q.gateBB
    /\ \A c \in Colors : \A g \in 1..p.setupCount[c] :
          p.gatingSquares[c][g] = q.gatingSquares[c][g]
    /\ p.setupCount = q.setupCount
    /\ p.sideToMove = q.sideToMove
    /\ St(p).castlingRights = St(q).castlingRights
    /\ St(p).epSquare = St(q).epSquare
    /\ St(p).rule50 = St(q).rule50

\* C20: for every position reached by a FEN load followed by legal setup and
\* playing moves, set(fen()) gives a position whose fen() is the same string
\* and whose board, gating catalog, gate squares, setup counters, side to
\* move, castling rights, en-passant square and rule50 are the same.
C20_FenRoundTrip ==
    (last.op \in {"set", "do"} /\ last.clean) =>
        /\ fen(Reloaded(pos)) = fen(pos)
        /\ SameAfterReload(pos, Reloaded(pos))


-----------------------------------------------------------------------------
(***************************************************************************)
(* The caller of gives_check: playing-phase positions with gates under the *)
(* king, a rook and a short-range piece, and the moves made from them.     *)
(***************************************************************************)
\* Plies played from the loaded position.
MaxCheckPly == 2

\* 4k3/8/8/8/8/8/4n3/4K3[DeM-d-m-] w - - 0 1
\* 4k3/8/8/8/8/8/8/4K3[MeD-m-d-] w - - 0 1
\* 8/8/8/8/8/6k1/8/4K2R[MhD-m-d-] w K - 0 1
\* 8/8/8/8/7k/8/5n2/4K3[AeD-a-d-] w - - 0 1
\* 7k/8/8/8/8/8/1p6/L3K3[DaM-d-m-] w - - 0 1
\* r5k1/1P6/8/8/8/8/8/4K3[C-L-c-l-] w - - 0 1
CheckFens ==
    <<
      [placement |-> <<"4", "k", "3", "/", "8", "/", "8", "/", "8", "/", "8", "/", "8", "/", "4", "n", "3", "/", "4", "K", "3">>, gating |-> <<"D", "e", "M", "-", "d", "-", "m", "-", "]">>, color |-> "w", castling |-> <<"-">>, ep |-> <<"-">>, rule50 |-> 0, fullmove |-> 1, chess960 |-> FALSE],
      [placement |-> <<"4", "k", "3", "/", "8", "/", "8", "/", "8", "/", "8", "/", "8", "/", "8", "/", "4", "K", "3">>, gating |-> <<"M", "e", "D", "-", "m", "-", "d", "-", "]">>, color |-> "w", castling |-> <<"-">>, ep |-> <<"-">>, rule50 |-> 0, fullmove |-> 1, chess960 |-> FALSE],
      [placement |-> <<"8", "/", "8", "/", "8", "/", "8", "/", "8", "/", "6", "k", "1", "/", "8", "/", "4", "K", "2", "R">>, gating |-> <<"M", "h", "D", "-", "m", "-", "d", "-", "]">>, color |-> "w", castling |-> <<"K">>, ep |-> <<"-">>, rule50 |-> 0, fullmove |-> 1, chess960 |-> FALSE],
      [placement |-> <<"8", "/", "8", "/", "8", "/", "8", "/", "7", "k", "/", "8", "/", "5", "n", "2", "/", "4", "K", "3">>, gating |-> <<"A", "e", "D", "-", "a", "-", "d", "-", "]">>, color |-> "w", castling |-> <<"-">>, ep |-> <<"-">>, rule50 |-> 0, fullmove |-> 1, chess960 |-> FALSE],
      [placement |-> <<"7", "k", "/", "8", "/", "8", "/", "8", "/", "8", "/", "8", "/", "1", "p", "6", "/", "L", "3", "K", "3">>, gating |-> <<"D", "a", "M", "-", "d", "-", "m", "-", "]">>, color |-> "w", castling |-> <<"-">>, ep |-> <<"-">>, rule50 |-> 0, fullmove |-> 1, chess960 |-> FALSE],
      [placement |-> <<"r", "5", "k", "1", "/", "1", "P", "6", "/", "8", "/", "8", "/", "8", "/", "8", "/", "8", "/", "4", "K", "3">>, gating |-> <<"C", "-", "L", "-", "c", "-", "l", "-", "]">>, color |-> "w", castling |-> <<"-">>, ep |-> <<"-">>, rule50 |-> 0, fullmove |-> 1, chess960 |-> FALSE]
    >>

CheckInit ==
    \E i \in 1..Len(CheckFens) :
        /\ pos = set(CheckFens[i])
        /\ hist = <<>>
        /\ last = [op |-> "set", m |-> NoMove, before |-> set(CheckFens[i]), clean |-> TRUE]

\* do_move(m, newSt) for a move m of generate<LEGAL>
CheckMove ==
    /\ Len(hist) < MaxCheckPly
    /\ LET ml == generate_LEGAL(pos) IN
       \E i \in 1..Len(ml) :
          /\ pos' = do_move(pos, ml[i])
          /\ hist' = Append(hist, [kind |-> "move", m |-> ml[i]])
          /\ last' = [op |-> "do", m |-> ml[i], before |-> pos, clean |-> TRUE]

CheckNext == CheckMove

SpecCheck == CheckInit /\ [][CheckNext]_vars

\* The pieces of the side that has just moved which attack the king of the
\* side to move.
AttackersOfKing(p) ==
    attackers_to(p, square_king(p, p.sideToMove), pieces(p))
        \cap pieces_c(p, Opp(p.sideToMove))

\* C21: for every playing-phase position and every legal move m,
\* gives_check(m) is true iff in the position do_move(m) produces the king of
\* the new side to move is attacked by a piece of the side that moved.
C21_GivesCheckIffAttacked ==
    (last.op = "do" /\ last.clean /\ game_phase(last.before) = GAMEPHASE_PLAYING) =>
        (gives_check(last.before, last.m) <=> AttackersOfKing(pos) # {})


-----------------------------------------------------------------------------
(***************************************************************************)
(* Position::pseudo_legal (position.cpp) and its caller, which hands it    *)
(* move values from an untrusted source.                                   *)
(***************************************************************************)
\* MoveList<LEGAL>(*this).contains(m)
Contains(list, m) == \E i \in 1..Len(list) : list[i] = m

\* The test of a pawn move in pseudo_legal: a capture, a single push or a
\* double push.
PawnShape(p, us, from, to) ==
    \/ to \in (attacks_from(p, us, PAWN, from) \cap pieces_c(p, Opp(us)))
    \/ (from + pawn_push(us) = to /\ empty(p, to))
    \/ /\ from + 2 * pawn_push(us) = to
       /\ rank_of(from) = relative_rank(us, RANK_2)
       /\ empty(p, to)
       /\ empty(p, to - pawn_push(us))

\* The test pseudo_legal makes while the side to move is in check.
EvadesCheck(p, us, pc, from, to) ==
    LET ksq == square_king(p, us)
        checksq == lsb(checkers(p))
    IN  IF type_of_piece(pc) # KING
        THEN /\ ~more_than_one(checkers(p))
             /\ ~(\/ to \notin (between_bb(checksq, ksq) \cup checkers(p))
                  \/ ksq \in LeaperAttacks[Opp(us)][type_of_piece(piece_on(p, checksq))][checksq])
        ELSE (attackers_to(p, to, Xor(pieces(p), {from})) \cap pieces_c(p, Opp(us))) = {}

\* pseudo_legal(m), legalList the MoveList<LEGAL> it builds for a move that is
\* not NORMAL.
PseudoLegalWith(p, m, legalList) ==
    LET us == p.sideToMove
        from == from_sq(m)
        to == to_sq(m)
        pc == moved_piece(p, m)
    IN  IF type_of(m) # NORMAL THEN Contains(legalList, m)
        ELSE IF game_phase(p) # GAMEPHASE_PLAYING THEN FALSE
        ELSE IF promotion_type(m) # NO_PIECE_TYPE THEN FALSE
        ELSE IF pc = NO_PIECE \/ color_of(pc) # us THEN FALSE
        ELSE IF to \in pieces_c(p, us) THEN FALSE
        ELSE IF type_of_piece(pc) = PAWN
                /\ (rank_of(to) = relative_rank(us, RANK_8) \/ ~PawnShape(p, us, from, to))
        THEN FALSE
        ELSE IF type_of_piece(pc) # PAWN /\ to \notin attacks_from(p, us, type_of_piece(pc), from)
        THEN FALSE
        ELSE IF checkers(p) # {} THEN EvadesCheck(p, us, pc, from, to)
        ELSE TRUE

\* Position::pseudo_legal(m)
pseudo_legal(p, m) == PseudoLegalWith(p, m, generate_LEGAL(p))

\* 4k3/8/8/8/8/3n4/8/4KB2[C-L-c-l-] w - - 0 1
\* 4k3/8/8/8/4r3/R7/8/4K2B[C-L-c-l-] w - - 0 1
\* 4k3/8/8/8/4r3/3n4/8/4KB2[C-L-c-l-] w - - 0 1
\* 4k3/8/8/3p4/4P3/8/5P2/4K3[C-L-c-l-] w - - 0 1
\* 4k3/8/8/8/8/8/3p4/3RK3[C-L-c-l-] w - - 0 1
\* r3k3/8/8/8/8/8/4B3/R3K2R[CaLhc-l-] w KQ - 0 1
\* 4k3/8/8/8/8/8/8/4K3 w - - 0 1
\* rnbqkbnr/8/8/8/8/8/8/RNBQKBNR[C?L?c?l?] w KQkq - 0 1
ProbeFens ==
    <<
      [placement |-> <<"4", "k", "3", "/", "8", "/", "8", "/", "8", "/", "8", "/", "3", "n", "4", "/", "8", "/", "4", "K", "B", "2">>, gating |-> <<"C", "-", "L", "-", "c", "-", "l", "-", "]">>, color |-> "w", castling |-> <<"-">>, ep |-> <<"-">>, rule50 |-> 0, fullmove |-> 1, chess960 |-> FALSE],
      [placement |-> <<"4", "k", "3", "/", "8", "/", "8", "/", "8", "/", "4", "r", "3", "/", "R", "7", "/", "8", "/", "4", "K", "2", "B">>, gating |-> <<"C", "-", "L", "-", "c", "-", "l", "-", "]">>, color |-> "w", castling |-> <<"-">>, ep |-> <<"-">>, rule50 |-> 0, fullmove |-> 1, chess960 |-> FALSE],
      [placement |-> <<"4", "k", "3", "/", "8", "/", "8", "/", "8", "/", "4", "r", "3", "/", "3", "n", "4", "/", "8", "/", "4", "K", "B", "2">>, gating |-> <<"C", "-", "L", "-", "c", "-", "l", "-", "]">>, color |-> "w", castling |-> <<"-">>, ep |-> <<"-">>, rule50 |-> 0, fullmove |-> 1, chess960 |-> FALSE],
      [placement |-> <<"4", "k", "3", "/", "8", "/", "8", "/", "3", "p", "4", "/", "4", "P", "3", "/", "8", "/", "5", "P", "2", "/", "4", "K", "3">>, gating |-> <<"C", "-", "L", "-", "c", "-", "l", "-", "]">>, color |-> "w", castling |-> <<"-">>, ep |-> <<"-">>, rule50 |-> 0, fullmove |-> 1, chess960 |-> FALSE],
      [placement |-> <<"4", "k", "3", "/", "8", "/", "8", "/", "8", "/", "8", "/", "8", "/", "3", "p", "4", "/", "3", "R", "K", "3">>, gating |-> <<"C", "-", "L", "-", "c", "-", "l", "-", "]">>, color |-> "w", castling |-> <<"-">>, ep |-> <<"-">>, rule50 |-> 0, fullmove |-> 1, chess960 |-> FALSE],
      [placement |-> <<"r", "3", "k", "3", "/", "8", "/", "8", "/", "8", "/", "8", "/", "8", "/", "4", "B", "3", "/", "R", "3", "K", "2", "R">>, gating |-> <<"C", "a", "L", "h", "c", "-", "l", "-", "]">>, color |-> "w", castling |-> <<"K", "Q">>, ep |-> <<"-">>, rule50 |-> 0, fullmove |-> 1, chess960 |-> FALSE],
      [placement |-> <<"4", "k", "3", "/", "8", "/", "8", "/", "8", "/", "8", "/", "8", "/", "8", "/", "4", "K", "3">>, gating |-> <<>>, color |-> "w", castling |-> <<"-">>, ep |-> <<"-">>, rule50 |-> 0, fullmove |-> 1, chess960 |-> FALSE],
      [placement |-> <<"r", "n", "b", "q", "k", "b", "n", "r", "/", "8", "/", "8", "/", "8", "/", "8", "/", "8", "/", "8", "/", "R", "N", "B", "Q", "K", "B", "N", "R">>, gating |-> <<"C", "?", "L", "?", "c", "?", "l", "?", "]">>, color |-> "w", castling |-> <<"K", "Q", "k", "q">>, ep |-> <<"-">>, rule50 |-> 0, fullmove |-> 1, chess960 |-> FALSE]
    >>

\* The move values the caller tries: every tag, every destination, and these
\* piece-type payloads.
MoveTags ==
    {NORMAL, PROMOTION_LEFT, PROMOTION_RIGHT, PROMOTION_STRAIGHT, ENPASSANT, CASTLING,
     SET_GATING_TYPE, PUT_GATING_PIECE}
ProbePts == {NO_PIECE_TYPE, KNIGHT, QUEEN, CANNON, LEOPARD}
ProbeMoves(from) == {make(T, from, to, pt) : T \in MoveTags, to \in Squares, pt \in ProbePts}

ProbeInit ==
    \E i \in 1..Len(ProbeFens) :
        /\ pos = set(ProbeFens[i])
        /\ hist = <<>>
        /\ last = [op |-> "set"]

\* The caller screens the move values from one origin square with
\* pseudo_legal and legal, and generates the legal moves.
Probe ==
    /\ last.op = "set"
    /\ \E ml \in {generate_LEGAL(pos)} :
       \E from \in Squares :
          last' = [op |-> "probe", from |-> from,
                   accepted |-> {m \in ProbeMoves(from) :
                                    PseudoLegalWith(pos, m, ml) /\ legal(pos, m)},
                   generated |-> {m \in ProbeMoves(from) : Contains(ml, m)}]
    /\ UNCHANGED <<pos, hist>>

ProbeNext == Probe

SpecProbe == ProbeInit /\ [][ProbeNext]_vars

\* C22: for every position and every move value m, pseudo_legal(m) and
\* legal(m) both hold iff m is a member of generate<LEGAL>(pos).
C22_AcceptedIffGenerated ==
    last.op = "probe" => last.accepted = last.generated


-----------------------------------------------------------------------------
(***************************************************************************)
(* The caller of generate<EVASIONS>: positions with the side to move in    *)
(* check, loaded or reached by a move.                                     *)
(***************************************************************************)
\* Plies played from the loaded position.
MaxEvasionPly == 2

\* 4k3/8/8/8/8/3n4/8/4KB2[C-L-c-l-] w - - 0 1
\* 4k3/8/8/8/4r3/R7/8/4K2B[C-L-c-l-] w - - 0 1
\* 4k3/8/8/8/4r3/3n4/8/4KB2[C-L-c-l-] w - - 0 1
\* 8/8/8/5k2/3p4/8/4P3/4K3[C-L-c-l-] w - - 0 1
\* 4k3/8/8/8/4h3/R7/8/4K2B[C-L-c-l-] w - - 0 1
\* 4k3/8/8/8/4m3/R7/8/4K2B[M-D-m-d-] w - - 0 1
\* 4k3/8/8/8/8/3m4/8/R3KB2[M-D-m-d-] w - - 0 1
\* 4k3/8/8/8/8/8/1P1r4/R3K3[C-L-c-l-] w - - 0 1
EvasionFens ==
    <<
      [placement |-> <<"4", "k", "3", "/", "8", "/", "8", "/", "8", "/", "8", "/", "3", "n", "4", "/", "8", "/", "4", "K", "B", "2">>, gating |-> <<"C", "-", "L", "-", "c", "-", "l", "-", "]">>, color |-> "w", castling |-> <<"-">>, ep |-> <<"-">>, rule50 |-> 0, fullmove |-> 1, chess960 |-> FALSE],
      [placement |-> <<"4", "k", "3", "/", "8", "/", "8", "/", "8", "/", "4", "r", "3", "/", "R", "7", "/", "8", "/", "4", "K", "2", "B">>, gating |-> <<"C", "-", "L", "-", "c", "-", "l", "-", "]">>, color |-> "w", castling |-> <<"-">>, ep |-> <<"-">>, rule50 |-> 0, fullmove |-> 1, chess960 |-> FALSE],
      [placement |-> <<"4", "k", "3", "/", "8", "/", "8", "/", "8", "/", "4", "r", "3", "/", "3", "n", "4", "/", "8", "/", "4", "K", "B", "2">>, gating |-> <<"C", "-", "L", "-", "c", "-", "l", "-", "]">>, color |-> "w", castling |-> <<"-">>, ep |-> <<"-">>, rule50 |-> 0, fullmove |-> 1, chess960 |-> FALSE],
      [placement |-> <<"8", "/", "8", "/", "8", "/", "5", "k", "2", "/", "3", "p", "4", "/", "8", "/", "4", "P", "3", "/", "4", "K", "3">>, gating |-> <<"C", "-", "L", "-", "c", "-", "l", "-", "]">>, color |-> "w", castling |-> <<"-">>, ep |-> <<"-">>, rule50 |-> 0, fullmove |-> 1, chess960 |-> FALSE],
      [placement |-> <<"4", "k", "3", "/", "8", "/", "8", "/", "8", "/", "4", "h", "3", "/", "R", "7", "/", "8", "/", "4", "K", "2", "B">>, gating |-> <<"C", "-", "L", "-", "c", "-", "l", "-", "]">>, color |-> "w", castling |-> <<"-">>, ep |-> <<"-">>, rule50 |-> 0, fullmove |-> 1, chess960 |-> FALSE],
      [placement |-> <<"4", "k", "3", "/", "8", "/", "8", "/", "8", "/", "4", "m", "3", "/", "R", "7", "/", "8", "/", "4", "K", "2", "B">>, gating |-> <<"M", "-", "D", "-", "m", "-", "d", "-", "]">>, color |-> "w", castling |-> <<"-">>, ep |-> <<"-">>, rule50 |-> 0, fullmove |-> 1, chess960 |-> FALSE],
      [placement |-> <<"4", "k", "3", "/", "8", "/", "8", "/", "8", "/", "8", "/", "3", "m", "4", "/", "8", "/", "R", "3", "K", "B", "2">>, gating |-> <<"M", "-", "D", "-", "m", "-", "d", "-", "]">>, color |-> "w", castling |-> <<"-">>, ep |-> <<"-">>, rule50 |-> 0, fullmove |-> 1, chess960 |-> FALSE],
      [placement |-> <<"4", "k", "3", "/", "8", "/", "8", "/", "8", "/", "8", "/", "8", "/", "1", "P", "1", "r", "4", "/", "R", "3", "K", "3">>, gating |-> <<"C", "-", "L", "-", "c", "-", "l", "-", "]">>, color |-> "w", castling |-> <<"-">>, ep |-> <<"-">>, rule50 |-> 0, fullmove |-> 1, chess960 |-> FALSE]
    >>

EvasionInit ==
    \E i \in 1..Len(EvasionFens) :
        /\ pos = set(EvasionFens[i])
        /\ hist = <<>>
        /\ last = [op |-> "set", moves |-> <<>>]

\* do_move(m, newSt) for a move m of generate<LEGAL>
EvasionMove ==
    /\ Len(hist) < MaxEvasionPly
    /\ last.op # "evasions"
    /\ \E ml \in {generate_LEGAL(pos)} :
       \E i \in 1..Len(ml) :
          /\ pos' = do_move(pos, ml[i])
          /\ hist' = Append(hist, [kind |-> "move", m |-> ml[i]])
          /\ last' = [op |-> "do", moves |-> <<>>]

\* generate<EVASIONS>(pos, moveList), called when the side to move is in check
Evade ==
    /\ last.op # "evasions"
    /\ checkers(pos) # {}
    /\ last' = [op |-> "evasions", moves |-> generate_EVASIONS(pos)]
    /\ UNCHANGED <<pos, hist>>

EvasionNext == EvasionMove \/ Evade

SpecEvasion == EvasionInit /\ [][EvasionNext]_vars

\* The squares strictly between a and b on a rank, a file or a diagonal.
Sign(x) == IF x > 0 THEN 1 ELSE IF x < 0 THEN -1 ELSE 0
StrictlyBetween(a, b) ==
    LET df == file_of(b) - file_of(a)
        dr == rank_of(b) - rank_of(a)
        n == Max(Abs(df), Abs(dr))
    IN  IF df = 0 \/ dr = 0 \/ Abs(df) = Abs(dr)
        THEN {make_square(file_of(a) + k * Sign(df), rank_of(a) + k * Sign(dr)) : k \in 1..(n - 1)}
        ELSE {}

\* The checker on s attacks the king of the side to move by a leaper step.
LeaperCheck(p, s) ==
    square_king(p, p.sideToMove)
        \in LeaperAttacks[Opp(p.sideToMove)][type_of_piece(piece_on(p, s))][s]

\* The squares the checkers attack once the king is taken off the board.
CheckerAttacks(p) ==
    UNION {attacks_bb(Opp(p.sideToMove), type_of_piece(piece_on(p, s)), s,
                      pieces(p) \ {square_king(p, p.sideToMove)}) : s \in checkers(p)}

\* The king moves of the list go to squares free of own pieces that no checker
\* attacks; with two checkers or more the list holds nothing else.
EvasionKingPart(p, ml) ==
    LET ksq == square_king(p, p.sideToMove)
    IN  /\ \A i \in 1..Len(ml) :
              from_sq(ml[i]) = ksq =>
                  /\ to_sq(ml[i]) \notin pieces_c(p, p.sideToMove)
                  /\ to_sq(ml[i]) \notin CheckerAttacks(p)
        /\ Cardinality(checkers(p)) >= 2 => \A i \in 1..Len(ml) : from_sq(ml[i]) = ksq

\* The destinations C23 allows a non-king move against the single checker s.
EvasionTargets(p, s) ==
    IF LeaperCheck(p, s) THEN {s}
    ELSE {s} \cup StrictlyBetween(s, square_king(p, p.sideToMove))

\* C23 as stated: in check in the playing phase, generate<EVASIONS> emits king
\* moves only to squares not occupied by own pieces and not attacked by a
\* checker with the king removed; with two or more checkers nothing else;
\* with one checker every non-king move goes to the checker's square or
\* strictly between checker and king, and only to the checker's square when
\* it checks by a leaper step.
C23_EvasionsAddressCheck ==
    (last.op = "evasions" /\ game_phase(pos) = GAMEPHASE_PLAYING) =>
        /\ EvasionKingPart(pos, last.moves)
        /\ Cardinality(checkers(pos)) = 1 =>
              \A i \in 1..Len(last.moves) :
                  from_sq(last.moves[i]) # square_king(pos, pos.sideToMove) =>
                      \A s \in checkers(pos) : to_sq(last.moves[i]) \in EvasionTargets(pos, s)

\* C23, amended: the same, except that the en-passant capture of a checking
\* pawn that has just advanced two squares goes to the en-passant square.
C23_EvasionsAddressCheckOrTakeEnPassant ==
    (last.op = "evasions" /\ game_phase(pos) = GAMEPHASE_PLAYING) =>
        /\ EvasionKingPart(pos, last.moves)
        /\ Cardinality(checkers(pos)) = 1 =>
              \A i \in 1..Len(last.moves) :
                  from_sq(last.moves[i]) # square_king(pos, pos.sideToMove) =>
                      \A s \in checkers(pos) :
                          IF type_of(last.moves[i]) = ENPASSANT
                          THEN /\ to_sq(last.moves[i]) = ep_square(pos)
                               /\ s = ep_square(pos) - pawn_push(pos.sideToMove)
                               /\ piece_on(pos, s) = make_piece(Opp(pos.sideToMove), PAWN)
                          ELSE to_sq(last.moves[i]) \in EvasionTargets(pos, s)

\* The list answers a double check, a single check by a leaper with a capture
\* of the checker, or a single check by a slider with a blocking move.
C23_Witness ==
    /\ last.op = "evasions"
    /\ Cardinality(checkers(pos)) = 1
    /\ \E i \in 1..Len(last.moves) :
          /\ from_sq(last.moves[i]) # square_king(pos, pos.sideToMove)
          /\ to_sq(last.moves[i]) \notin checkers(pos)
          /\ type_of(last.moves[i]) = NORMAL


-----------------------------------------------------------------------------
(***************************************************************************)
(* The en-passant square: positions with pawns that can advance two squares *)
(* next to an enemy pawn, and positions loaded with an en-passant field.    *)
(***************************************************************************)
\* 4k3/8/8/8/3p4/8/4P3/4K3[C-L-c-l-] w - - 0 1
\* 4k3/3p4/8/4P3/8/8/6P1/4K3[C-L-c-l-] b - - 0 1
\* 4k3/8/8/8/3pP3/8/8/4K3[C-L-c-l-] b - e3 0 1
\* 4k3/8/8/8/8/8/3Pp3/4K3[C-L-c-l-] w - e3 0 1
\* 4k3/8/8/8/3pP3/8/8/4K3 b - e3 0 1
EpFens ==
    <<
      [placement |-> <<"4", "k", "3", "/", "8", "/", "8", "/", "8", "/", "3", "p", "4", "/", "8", "/", "4", "P", "3", "/", "4", "K", "3">>, gating |-> <<"C", "-", "L", "-", "c", "-", "l", "-", "]">>, color |-> "w", castling |-> <<"-">>, ep |-> <<"-">>, rule50 |-> 0, fullmove |-> 1, chess960 |-> FALSE],
      [placement |-> <<"4", "k", "3", "/", "3", "p", "4", "/", "8", "/", "4", "P", "3", "/", "8", "/", "8", "/", "6", "P", "1", "/", "4", "K", "3">>, gating |-> <<"C", "-", "L", "-", "c", "-", "l", "-", "]">>, color |-> "b", castling |-> <<"-">>, ep |-> <<"-">>, rule50 |-> 0, fullmove |-> 1, chess960 |-> FALSE],
      [placement |-> <<"4", "k", "3", "/", "8", "/", "8", "/", "8", "/", "3", "p", "P", "3", "/", "8", "/", "8", "/", "4", "K", "3">>, gating |-> <<"C", "-", "L", "-", "c", "-", "l", "-", "]">>, color |-> "b", castling |-> <<"-">>, ep |-> <<"e", "3">>, rule50 |-> 0, fullmove |-> 1, chess960 |-> FALSE],
      [placement |-> <<"4", "k", "3", "/", "8", "/", "8", "/", "8", "/", "8", "/", "8", "/", "3", "P", "p", "3", "/", "4", "K", "3">>, gating |-> <<"C", "-", "L", "-", "c", "-", "l", "-", "]">>, color |-> "w", castling |-> <<"-">>, ep |-> <<"e", "3">>, rule50 |-> 0, fullmove |-> 1, chess960 |-> FALSE],
      [placement |-> <<"4", "k", "3", "/", "8", "/", "8", "/", "8", "/", "3", "p", "P", "3", "/", "8", "/", "8", "/", "4", "K", "3">>, gating |-> <<>>, color |-> "b", castling |-> <<"-">>, ep |-> <<"e", "3">>, rule50 |-> 0, fullmove |-> 1, chess960 |-> FALSE]
    >>

EpInit ==
    \E i \in 1..Len(EpFens) :
        /\ pos = set(EpFens[i])
        /\ hist = <<>>
        /\ last = [op |-> "set", m |-> NoMove, before |-> set(EpFens[i]),
                   immediate |-> FALSE, pure |-> TRUE, clean |-> TRUE, prev |-> "set",
                   undone |-> <<>>]

SpecEp == EpInit /\ [][Next]_vars

\* The move m made in position b by the colour us was a pawn advance of two
\* squares that leaves the pawn next to an enemy pawn on a neighbouring file.
DoublePushBesideEnemyPawn(b, p, m) ==
    LET us == b.sideToMove
    IN  /\ type_of(m) = NORMAL
        /\ piece_on(b, from_sq(m)) = make_piece(us, PAWN)
        /\ to_sq(m) = from_sq(m) + 2 * pawn_push(us)
        /\ \E s \in pieces_cpt(p, Opp(us), PAWN) :
              /\ rank_of(s) = rank_of(to_sq(m))
              /\ Abs(file_of(s) - file_of(to_sq(m))) = 1

\* After do_move the en-passant square is set iff the move was such an advance.
EpSetIffDoublePush ==
    last.op = "do" =>
        (ep_square(pos) # SQ_NONE <=> DoublePushBesideEnemyPawn(last.before, pos, last.m))

\* A set en-passant square lies on the sixth rank of the side to move, the
\* pushed pawn stands directly behind it and a pawn of the side to move
\* attacks it.
EpSquareSound ==
    ep_square(pos) # SQ_NONE =>
        LET us == pos.sideToMove
            ep == ep_square(pos)
        IN  /\ rank_of(ep) = relative_rank(us, RANK_6)
            /\ piece_on(pos, ep - pawn_push(us)) = make_piece(Opp(us), PAWN)
            /\ \E s \in pieces_cpt(pos, us, PAWN) :
                  /\ rank_of(s) = rank_of(ep) - (IF us = WHITE THEN 1 ELSE -1)
                  /\ Abs(file_of(s) - file_of(ep)) = 1

\* assert(b1) of generate_pawn_moves: an en-passant capturer exists.
EpCapturerExists ==
    (game_phase(pos) = GAMEPHASE_PLAYING /\ ep_square(pos) # SQ_NONE) =>
        (pieces_cpt(pos, pos.sideToMove, PAWN)
            \cap attacks_from(pos, Opp(pos.sideToMove), PAWN, ep_square(pos))) # {}

\* C24: after every do_move epSquare is set iff the move was a pawn advance
\* of exactly two squares and an enemy pawn attacks the skipped square; so a
\* set en-passant square lies on the side to move's relative rank 6, the
\* pushed pawn stands directly behind it, a pawn of the side to move attacks
\* it, and the assertion of generate_pawn_moves never fails.
C24_EpSquare == EpSetIffDoublePush /\ EpSquareSound /\ EpCapturerExists


-----------------------------------------------------------------------------
\* The move m selects in position b the type that is already last in the
\* catalog, so that do_move puts the fallback pair in its place.
DuplicateSelection(b, m) ==
    /\ type_of(m) = SET_GATING_TYPE
    /\ b.gateCount # NO_GATE
    /\ Get(b.gatingPieces, b.gateCount, NO_PIECE_TYPE) = gating_type(m)

\* The catalog and its count are those of b.
SameCatalog(p, b) ==
    /\ p.gateCount = b.gateCount
    /\ p.gatingPieces = b.gatingPieces

\* A duplicate selection has just been made and taken back by one undo_move.
DuplicateUndoneOnce ==
    /\ last.op = "undo"
    /\ last.immediate
    /\ DuplicateSelection(last.before, last.m)

\* C25 as stated: after a duplicate selection a single undo_move does not
\* bring the catalog and gateCount back to their values before that do_move.
C25_SingleUndoLeavesCatalogChanged ==
    DuplicateUndoneOnce => ~SameCatalog(pos, last.before)

\* C25, amended: after a duplicate selection a single undo_move takes both
\* fallback entries out and puts the removed type back, so the catalog and
\* gateCount are again those before that do_move.
C25_SingleUndoRestoresCatalog ==
    DuplicateUndoneOnce =>
        /\ SameCatalog(pos, last.before)
        /\ pos.gateCount = 1
        /\ pos.gatingPieces[1] = gating_type(last.m)

\* A duplicate selection of a type other than the fallback pair was made,
\* which put cannon and leopard in the catalog, and was taken back.
C25_Witness ==
    /\ DuplicateUndoneOnce
    /\ gating_type(last.m) \notin {CANNON, LEOPARD}
    /\ do_move(last.before, last.m).gateCount = 2


-----------------------------------------------------------------------------
\* do_move has just made a set_gating_type or put_gating_piece move.
SetupMoveDone ==
    /\ last.op = "do"
    /\ type_of(last.m) \in {SET_GATING_TYPE, PUT_GATING_PIECE}

\* The board, the bitboards, the piece counts and lists, the ply counters,
\* the castling rights, the en-passant square and the pawn and material keys
\* of p are those of b.
SetupFrame(p, b) ==
    /\ p.board = b.board
    /\ p.byTypeBB = b.byTypeBB
    /\ p.byColorBB = b.byColorBB
    /\ p.pieceCount = b.pieceCount
    /\ p.pieceList = b.pieceList
    /\ p.index = b.index
    /\ p.gamePly = b.gamePly
    /\ St(p).rule50 = St(b).rule50
    /\ St(p).pliesFromNull = St(b).pliesFromNull
    /\ St(p).castlingRights = St(b).castlingRights
    /\ St(p).epSquare = St(b).epSquare
    /\ St(p).pawnKey = St(b).pawnKey
    /\ St(p).materialKey = St(b).materialKey

\* What else a setup move leaves alone: the castling tables, the material
\* sums and the earlier StateInfo objects; a selection leaves the gates and
\* the psq score alone, a placement the catalog.
SetupTouchesOnly(p, b, m) ==
    /\ p.castlingRightsMask = b.castlingRightsMask
    /\ p.castlingRookSquare = b.castlingRookSquare
    /\ p.castlingPath = b.castlingPath
    /\ St(p).nonPawnMaterial = St(b).nonPawnMaterial
    /\ SubSeq(p.st, 1, Len(p.st) - 1) = b.st
    /\ type_of(m) = SET_GATING_TYPE =>
          /\ p.gateBB = b.gateBB
          /\ p.gateBoard = b.gateBoard
          /\ p.gatingSquares = b.gatingSquares
          /\ p.setupCount = b.setupCount
          /\ St(p).psq = St(b).psq
    /\ type_of(m) = PUT_GATING_PIECE =>
          /\ p.gatingPieces = b.gatingPieces
          /\ p.gateCount = b.gateCount

-----------------------------------------------------------------------------
(***************************************************************************)
(* A game from the empty catalog: selections, placements, board moves.     *)
(***************************************************************************)
\* Plies played from the loaded position: two selections, four placements
\* and two moves on the board.
MaxGamePly == 8

\* The types offered for selection.
GameTypes == {CANNON, HAWK}

\* The files offered for placement.
GameFiles == {FILE_A, FILE_H}

\* r6k/8/8/8/8/8/8/R6K w - - 0 1
\* n6k/8/8/8/8/8/8/N6K w - - 0 1, without a gating list
GameFens ==
    <<
      [placement |-> <<"r", "6", "k", "/", "8", "/", "8", "/", "8", "/", "8", "/", "8", "/", "8", "/", "R", "6", "K">>, gating |-> <<>>, color |-> "w", castling |-> <<"-">>, ep |-> <<"-">>, rule50 |-> 0, fullmove |-> 1, chess960 |-> FALSE],
      [placement |-> <<"n", "6", "k", "/", "8", "/", "8", "/", "8", "/", "8", "/", "8", "/", "8", "/", "N", "6", "K">>, gating |-> <<>>, color |-> "w", castling |-> <<"-">>, ep |-> <<"-">>, rule50 |-> 0, fullmove |-> 1, chess960 |-> FALSE]
    >>

GameInit ==
    \E i \in 1..Len(GameFens) :
        /\ pos = set(GameFens[i])
        /\ hist = <<>>
        /\ last = [op |-> "set", m |-> NoMove, before |-> set(GameFens[i])]

\* do_move(m, newSt) for a move m of generate<LEGAL>
GameMove ==
    /\ Len(hist) < MaxGamePly
    /\ \E ml \in {generate_LEGAL(pos)} :
       \E i \in 1..Len(ml) :
          /\ type_of(ml[i]) = SET_GATING_TYPE => gating_type(ml[i]) \in GameTypes
          /\ type_of(ml[i]) = PUT_GATING_PIECE => file_of(to_sq(ml[i])) \in GameFiles
          /\ pos' = do_move(pos, ml[i])
          /\ hist' = Append(hist, [kind |-> "move", m |-> ml[i], by |-> pos.sideToMove])
          /\ last' = [op |-> "do", m |-> ml[i], before |-> pos]

GameNext == GameMove

SpecGame == GameInit /\ [][GameNext]_vars

\* The moves of the line so far: GATE_NB-1 selections, then 2*(GATE_NB-1)
\* placements made by White and Black in turn, then moves on the board, the
\* first of them White's.
LineShape ==
    \A i \in 1..Len(hist) :
        IF i <= GATE_NB - 1
        THEN type_of(hist[i].m) = SET_GATING_TYPE
        ELSE IF i <= 3 * (GATE_NB - 1)
        THEN /\ type_of(hist[i].m) = PUT_GATING_PIECE
             /\ hist[i].by = (IF (i - (GATE_NB - 1)) % 2 = 1 THEN WHITE ELSE BLACK)
        ELSE /\ type_of(hist[i].m) \notin {SET_GATING_TYPE, PUT_GATING_PIECE}
             /\ i = 3 * (GATE_NB - 1) + 1 => hist[i].by = WHITE

\* SELECTION, PLACING, PLAYING in the order a game goes through them.
PhaseOrder(ph) ==
    IF ph = GAMEPHASE_SELECTION THEN 0 ELSE IF ph = GAMEPHASE_PLACING THEN 1 ELSE 2

\* C27: from a position with an empty catalog and White to move, a line of
\* generated moves is GATE_NB-1 selections, then 2*(GATE_NB-1) placements by
\* White and Black in turn, then board moves with White first; no do_move
\* takes the phase from PLAYING back to PLACING or SELECTION, or from PLACING
\* back to SELECTION.
C27_PhasesInOrder ==
    /\ []LineShape
    /\ [][PhaseOrder(game_phase(pos')) >= PhaseOrder(game_phase(pos))]_vars

\* Both sides have made a move on the board after the setup.
C27_Witness ==
    /\ Len(hist) = 3 * (GATE_NB - 1) + 2
    /\ game_phase(pos) = GAMEPHASE_PLAYING
    /\ hist[Len(hist)].by = BLACK


-----------------------------------------------------------------------------
(***************************************************************************)
(* Play after the setup: gates under pieces that move, castle or are taken. *)
(***************************************************************************)
\* Plies played from the loaded position.
MaxGatePly == 2

\* r3k3/8/8/8/8/8/8/RN2K2R[CeLbc-l-] w KQ - 0 1
\* rn2k3/8/8/8/8/8/8/R3K3[CaL-calb] w - - 0 1
\* 4k3/8/8/8/8/8/8/5K1R[CfL-c-l-] w H - 0 1 (Chess960)
\* 4k3/8/8/8/8/8/8/1N3KR1[CgLbc-l-] w G - 0 1 (Chess960)
GateFens ==
    <<
      [placement |-> <<"r", "3", "k", "3", "/", "8", "/", "8", "/", "8", "/", "8", "/", "8", "/", "8", "/", "R", "N", "2", "K", "2", "R">>, gating |-> <<"C", "e", "L", "b", "c", "-", "l", "-", "]">>, color |-> "w", castling |-> <<"K", "Q">>, ep |-> <<"-">>, rule50 |-> 0, fullmove |-> 1, chess960 |-> FALSE],
      [placement |-> <<"r", "n", "2", "k", "3", "/", "8", "/", "8", "/", "8", "/", "8", "/", "8", "/", "8", "/", "R", "3", "K", "3">>, gating |-> <<"C", "a", "L", "-", "c", "a", "l", "b", "]">>, color |-> "w", castling |-> <<"-">>, ep |-> <<"-">>, rule50 |-> 0, fullmove |-> 1, chess960 |-> FALSE],
      [placement |-> <<"4", "k", "3", "/", "8", "/", "8", "/", "8", "/", "8", "/", "8", "/", "8", "/", "5", "K", "1", "R">>, gating |-> <<"C", "f", "L", "-", "c", "-", "l", "-", "]">>, color |-> "w", castling |-> <<"H">>, ep |-> <<"-">>, rule50 |-> 0, fullmove |-> 1, chess960 |-> TRUE],
      [placement |-> <<"4", "k", "3", "/", "8", "/", "8", "/", "8", "/", "8", "/", "8", "/", "8", "/", "1", "N", "3", "K", "R", "1">>, gating |-> <<"C", "g", "L", "b", "c", "-", "l", "-", "]">>, color |-> "w", castling |-> <<"G">>, ep |-> <<"-">>, rule50 |-> 0, fullmove |-> 1, chess960 |-> TRUE]
    >>

GateInit ==
    \E i \in 1..Len(GateFens) :
        /\ pos = set(GateFens[i])
        /\ hist = <<>>
        /\ last = [op |-> "set", m |-> NoMove, before |-> set(GateFens[i])]

\* do_move(m, newSt) for a move m of generate<LEGAL>
GateMove ==
    /\ Len(hist) < MaxGatePly
    /\ \E ml \in {generate_LEGAL(pos)} :
       \E i \in 1..Len(ml) :
          /\ pos' = do_move(pos, ml[i])
          /\ hist' = Append(hist, [kind |-> "move", m |-> ml[i],
                                   left |-> pos.gateBB \ do_move(pos, ml[i]).gateBB])
          /\ last' = [op |-> "do", m |-> ml[i], before |-> pos]

GateNext == GateMove

SpecGate == GateInit /\ [][GateNext]_vars

\* The move m made in position b released the gate on s: the piece standing
\* on s left it by the move or by castling, and the gating piece of the gate
\* stands on s in p, one more piece of its kind than before.
GateReleased(b, p, m, s) ==
    /\ \/ from_sq(m) = s
       \/ type_of(m) = CASTLING /\ to_sq(m) = s
    /\ type_of_piece(piece_on(p, s)) = gating_piece_sq(b, s)
    /\ p.pieceCount[piece_on(p, s)] = b.pieceCount[piece_on(p, s)] + 1

\* The move m made in position b captured the piece standing on the gate s.
GateCaptured(b, p, m, s) ==
    /\ type_of(m) # CASTLING
    /\ to_sq(m) = s
    /\ piece_on(b, s) # NO_PIECE
    /\ piece_on(p, s) # NO_PIECE
    /\ color_of(piece_on(b, s)) = Opp(b.sideToMove)
    /\ type_of(m) = NORMAL => piece_on(p, s) = piece_on(b, from_sq(m))
    /\ color_of(piece_on(p, s)) = b.sideToMove

\* The castling move m made in position b dropped the gate on s: the king or
\* the rook left s and the rook or the king came to stand on it, and no
\* gating piece came onto the board.
GateDropped(b, p, m, s) ==
    /\ type_of(m) = CASTLING
    /\ s \in {from_sq(m), to_sq(m)}
    /\ type_of_piece(piece_on(p, s)) \in {KING, ROOK}
    /\ p.pieceCount[make_piece(b.sideToMove, gating_piece_sq(b, s))]
          = b.pieceCount[make_piece(b.sideToMove, gating_piece_sq(b, s))]

\* No square has left gateBB twice along the line.
NoGateLeavesTwice ==
    \A i, j \in 1..Len(hist) : i < j => hist[i].left \cap hist[j].left = {}

\* C28 as stated: in the playing phase no do_move adds a square to gateBB; a
\* gate leaves gateBB at most once, either by release, its square vacated by
\* a move or castling of the piece on it, or by capture of the piece on it,
\* never both, and the gating piece of a released gate appears exactly once.
C28_GatesLeaveByReleaseOrCapture ==
    /\ NoGateLeavesTwice
    /\ (last.op = "do" /\ game_phase(last.before) = GAMEPHASE_PLAYING) =>
          /\ pos.gateBB \subseteq last.before.gateBB
          /\ \A s \in last.before.gateBB \ pos.gateBB :
                GateReleased(last.before, pos, last.m, s)
                    # GateCaptured(last.before, pos, last.m, s)
          /\ \A s \in last.before.gateBB \cap pos.gateBB :
                ~GateReleased(last.before, pos, last.m, s)

\* C28, amended: the same, with a third way out of gateBB: a Chess960
\* castling whose king or rook lands on the gate square drops the gate
\* without bringing its piece onto the board.
C28_GatesLeaveByReleaseCaptureOrDrop ==
    /\ NoGateLeavesTwice
    /\ (last.op = "do" /\ game_phase(last.before) = GAMEPHASE_PLAYING) =>
          /\ pos.gateBB \subseteq last.before.gateBB
          /\ \A s \in last.before.gateBB \ pos.gateBB :
                /\ \/ GateReleased(last.before, pos, last.m, s)
                   \/ GateCaptured(last.before, pos, last.m, s)
                   \/ GateDropped(last.before, pos, last.m, s)
                /\ ~(GateReleased(last.before, pos, last.m, s)
                        /\ GateCaptured(last.before, pos, last.m, s))
                /\ GateDropped(last.before, pos, last.m, s) =>
                      /\ last.before.chess960
                      /\ ~GateReleased(last.before, pos, last.m, s)
          /\ \A s \in last.before.gateBB \cap pos.gateBB :
                ~GateReleased(last.before, pos, last.m, s)

\* One move released the gate under the moving piece and captured the piece
\* standing on another gate.
C28_Witness ==
    /\ last.op = "do"
    /\ game_phase(last.before) = GAMEPHASE_PLAYING
    /\ \E s1, s2 \in last.before.gateBB \ pos.gateBB :
          /\ GateReleased(last.before, pos, last.m, s1)
          /\ GateCaptured(last.before, pos, last.m, s2)


-----------------------------------------------------------------------------
(***************************************************************************)
(* The StateInfo chain under moves, null moves and their undoing, from      *)
(* positions loaded with a high halfmove clock.                            *)
(***************************************************************************)
\* Plies on the stack at most.
MaxChainPly == 4

ChainInit ==
    \E i \in 1..Len(DrawFens) :
        /\ pos = set(DrawFens[i])
        /\ hist = <<>>
        /\ last = [op |-> "set", m |-> NoMove]

\* do_move(m, newSt) for a move m of generate<LEGAL> between the squares of
\* DrawSquares
ChainMove ==
    /\ Len(hist) < MaxChainPly
    /\ last.op \in {"set", "do", "donull"}
    /\ \E ml \in {generate_LEGAL(pos)} :
       \E i \in 1..Len(ml) :
          /\ {from_sq(ml[i]), to_sq(ml[i])} \subseteq DrawSquares
          /\ pos' = do_move(pos, ml[i])
          /\ hist' = Append(hist, [kind |-> "move", m |-> ml[i]])
          /\ last' = [op |-> "do", m |-> ml[i]]

\* do_null_move(newSt)
ChainNullMove ==
    /\ Len(hist) < MaxChainPly
    /\ last.op \in {"set", "do", "donull"}
    /\ checkers(pos) = {}
    /\ pos' = do_null_move(pos)
    /\ hist' = Append(hist, [kind |-> "null", m |-> NoMove])
    /\ last' = [op |-> "donull", m |-> NoMove]

\* undo_move(m) for the move on top of the stack
ChainUndoMove ==
    /\ hist # <<>>
    /\ hist[Len(hist)].kind = "move"
    /\ \E g \in 0..(GATE_NB - 1) :
          /\ pos' = undo_move(pos, hist[Len(hist)].m, g)
          /\ hist' = SubSeq(hist, 1, Len(hist) - 1)
          /\ last' = [op |-> "undo", m |-> hist[Len(hist)].m]

\* undo_null_move()
ChainUndoNullMove ==
    /\ hist # <<>>
    /\ hist[Len(hist)].kind = "null"
    /\ pos' = undo_null_move(pos)
    /\ hist' = SubSeq(hist, 1, Len(hist) - 1)
    /\ last' = [op |-> "undonull", m |-> NoMove]

ChainNext == ChainMove \/ ChainNullMove \/ ChainUndoMove \/ ChainUndoNullMove

SpecChain == ChainInit /\ [][ChainNext]_vars

\* The StateInfo objects reachable from the j-th of the chain through previous.
AncestorCount(j) == j - 1

\* C29: min(st->rule50, st->pliesFromNull) does not exceed the number of
\* StateInfo ancestors of st, for st and for every StateInfo has_repeated
\* starts from, so the walks of is_draw, has_repeated and has_game_cycle
\* never follow a null previous pointer; and none of the steps they walk
\* over is a null move.
C29_WalksStayInsideChain ==
    /\ \A j \in 1..Len(pos.st) :
          Min(pos.st[j].rule50, pos.st[j].pliesFromNull) <= AncestorCount(j)
    /\ Len(pos.st) = Len(hist) + 1
    /\ \A k \in 1..CycleEnd(pos) :
          k <= Len(hist) /\ hist[Len(hist) + 1 - k].kind = "move"

\* Two moves or more made after a null move, with a halfmove clock beyond the
\* length of the chain.
C29_Witness ==
    /\ last.op = "do"
    /\ CycleEnd(pos) >= 2
    /\ St(pos).rule50 > Len(pos.st)
    /\ \E i \in 1..Len(hist) : hist[i].kind = "null"


-----------------------------------------------------------------------------
\* The fields of st that undo_move(m) reads in position p, by the branches of
\* undo_move and do_castling<false>.
UndoFieldsRead(p, m) ==
    LET us == Opp(p.sideToMove)
        from == from_sq(m)
        rfrom == to_sq(m)
        rto == relative_square(us, IF rfrom > from THEN SQ_F1 ELSE SQ_D1)
        kto == relative_square(us, IF rfrom > from THEN SQ_G1 ELSE SQ_C1)
        s == IF from \in pieces(p) THEN from ELSE rfrom
    IN  IF type_of(m) = SET_GATING_TYPE THEN {"removedGatingType"}
        ELSE IF type_of(m) = PUT_GATING_PIECE THEN {}
        ELSE IF type_of(m) = CASTLING
        THEN {"capturedPiece"}
                \cup (IF (pieces(p) \cap {from, rfrom}) = {} THEN {}
                      ELSE IF s # kto /\ s # rto THEN {"gate"} ELSE {"capturedGate"})
        ELSE {"capturedPiece"}
                \cup (IF from \in pieces(p) THEN {"gate"} ELSE {})
                \cup (IF St(p).capturedPiece \notin {NO_PIECE, UNINIT}
                      THEN {"capturedGate"} ELSE {})

\* C30: every StateInfo field undo_move reads (capturedPiece, gate,
\* capturedGate, removedGatingType) was assigned by the do_move that pushed
\* the StateInfo, so the position undo_move leaves does not depend on a value
\* left over in the caller's StateInfo, for every move type, Chess960
\* castling included.
C30_UndoReadsAssignedFields ==
    (last.op = "do" /\ hist # <<>>) =>
        /\ \A f \in UndoFieldsRead(pos, last.m) : St(pos)[f] # UNINIT
        /\ \A g \in 1..(GATE_NB - 1) :
              undo_move(pos, last.m, g) = undo_move(pos, last.m, NO_GATE)

====
